---------------------------- MODULE Spec2Model ----------------------------
(***************************************************************************)
(* A model of the SITE terminal text editor (src/main.go): the line        *)
(* buffer with its parallel token / embedded-context arrays, the editing   *)
(* state machine driven by key events, the command line, the reformat      *)
(* boundary, the streaming loader and the regexp-driven tokenizer.         *)
(*                                                                         *)
(* A Go string is a sequence of one-character strings; offsets are Go's    *)
(* 0-based byte offsets (all model characters are ASCII, so bytes and      *)
(* runes coincide).                                                        *)
(***************************************************************************)
EXTENDS Integers, Sequences, FiniteSets, TLC

(***************************************************************************)
(* Bounds of the model.                                                    *)
(***************************************************************************)
\* most lines the buffer may hold (edits that would exceed it are not offered)
MaxLines == 3
\* most characters the buffer may hold in total
MaxChars == 3
\* terminal height in rows (tcell Screen.Size), pageSize = ScreenH - 5
ScreenH == 7
\* terminal width in columns
ScreenW == 9
\* most map iteration orders a turn of the event loop is explored under
MaxSeeds == 2
\* most characters of a sample text the tokenizer is given
MaxTokLen == 17

(***************************************************************************)
(* Call(fn, args) is the value of the function fn of the model on the      *)
(* tuple args.  The functions the model applies from many places           *)
(* (FindAll, GrammarOf, Tokenize) and those an action of the event loop    *)
(* starts from are applied through Call; it is defined after them.         *)
(***************************************************************************)
RECURSIVE Call(_, _)

(***************************************************************************)
(* Go string helpers.                                                      *)
(***************************************************************************)
Min(a, b) == IF a < b THEN a ELSE b
Max(a, b) == IF a > b THEN a ELSE b

\* s[a:b] of Go, for 0 <= a <= b <= len(s)
Slice(s, a, b) == SubSeq(s, a + 1, b)
\* s[a:]
SliceFrom(s, a) == SubSeq(s, a + 1, Len(s))
\* s[i] of Go
At(s, i) == s[i + 1]

RECURSIVE Flatten(_)
Flatten(ss) == IF ss = <<>> THEN <<>> ELSE Head(ss) \o Flatten(Tail(ss))

RECURSIVE SumLens(_)
SumLens(ss) == IF ss = <<>> THEN 0 ELSE Len(Head(ss)) + SumLens(Tail(ss))

\* strings.HasSuffix
HasSuffix(s, suf) ==
    Len(s) >= Len(suf) /\ SubSeq(s, Len(s) - Len(suf) + 1, Len(s)) = suf

\* strings.HasPrefix at offset i: s[i:] starts with sub
HasPrefixAt(s, i, sub) ==
    i + Len(sub) <= Len(s) /\ SubSeq(s, i + 1, i + Len(sub)) = sub

\* strings.Index: least offset at which sub occurs in s, or -1
Index(s, sub) ==
    LET hits == {i \in 0..Len(s) : HasPrefixAt(s, i, sub)}
    IN IF hits = {} THEN -1 ELSE CHOOSE i \in hits : \A j \in hits : i <= j

\* strings.Contains
Contains(s, sub) == Index(s, sub) >= 0

\* strings.Count for a non-empty sub (non-overlapping occurrences)
RECURSIVE CountFrom(_, _, _)
CountFrom(s, sub, i) ==
    IF i + Len(sub) > Len(s) THEN 0
    ELSE IF HasPrefixAt(s, i, sub) THEN 1 + CountFrom(s, sub, i + Len(sub))
    ELSE CountFrom(s, sub, i + 1)
Count(s, sub) == CountFrom(s, sub, 0)

\* the characters strings.TrimSpace strips (ASCII white space)
SpaceChars == {" ", "\t", "\n", "\r"}

\* strings.TrimLeft(s, cutset)
RECURSIVE TrimLeft(_, _)
TrimLeft(s, cut) ==
    IF s # <<>> /\ Head(s) \in cut THEN TrimLeft(Tail(s), cut) ELSE s

RECURSIVE TrimRight(_, _)
TrimRight(s, cut) ==
    IF s # <<>> /\ s[Len(s)] \in cut THEN TrimRight(SubSeq(s, 1, Len(s) - 1), cut)
    ELSE s

\* strings.TrimSpace
TrimSpace(s) == TrimRight(TrimLeft(s, SpaceChars), SpaceChars)

UpperAZ == {"A","B","C","D","E","F","G","H","I","J","K","L","M",
            "N","O","P","Q","R","S","T","U","V","W","X","Y","Z"}
LowerAZ == {"a","b","c","d","e","f","g","h","i","j","k","l","m",
            "n","o","p","q","r","s","t","u","v","w","x","y","z"}
Digits == {"0","1","2","3","4","5","6","7","8","9"}
\* \w of Go's regexp: [0-9A-Za-z_]
WordChars == Digits \cup UpperAZ \cup LowerAZ \cup {"_"}

UpperSeq == <<"A","B","C","D","E","F","G","H","I","J","K","L","M",
              "N","O","P","Q","R","S","T","U","V","W","X","Y","Z">>
LowerSeq == <<"a","b","c","d","e","f","g","h","i","j","k","l","m",
              "n","o","p","q","r","s","t","u","v","w","x","y","z">>
\* strings.ToLower
ToLowerChar(c) ==
    IF c \in UpperAZ THEN LowerSeq[CHOOSE i \in 1..26 : UpperSeq[i] = c] ELSE c
ToLower(s) == [i \in 1..Len(s) |-> ToLowerChar(s[i])]

\* a split that returns the text whole, as one line
SplitLinesWhole(text) == <<text>>

\* strings.Split(text, "\n") where the text is a sequence of characters
RECURSIVE SplitLines(_)
SplitLines(text) ==
    LET i == Index(text, <<"\n">>)
    IN IF i < 0 THEN <<text>>
       ELSE <<Slice(text, 0, i)>> \o SplitLines(SliceFrom(text, i + 1))

\* strings.Join(lines, "\n")
RECURSIVE JoinLines(_)
JoinLines(ls) ==
    IF ls = <<>> THEN <<>>
    ELSE IF Len(ls) = 1 THEN ls[1]
    ELSE ls[1] \o <<"\n">> \o JoinLines(Tail(ls))

(***************************************************************************)
(* Regular expressions (Go's regexp, leftmost-first matching).  A pattern  *)
(* is a tree; MatchFrom lists, in the order a backtracking matcher tries   *)
(* them, the ways the tree matches at a position, and the first one is     *)
(* the match Go reports.  caps holds the offsets of capture groups 1 and   *)
(* 2 (match[2..5] of FindAllStringSubmatchIndex), -1 when a group did not  *)
(* take part.                                                              *)
(***************************************************************************)
RSet(cs) == [t |-> "set", cs |-> cs]
RNot(cs) == [t |-> "nset", cs |-> cs]
RCat(rs) == [t |-> "cat", rs |-> rs]
RAlt(rs) == [t |-> "alt", rs |-> rs]
RStar(r) == [t |-> "star", r |-> r, greedy |-> TRUE]
RLazyStar(r) == [t |-> "star", r |-> r, greedy |-> FALSE]
ROpt(r) == [t |-> "alt", rs |-> <<r, [t |-> "cat", rs |-> <<>>]>>]
RPlus(r) == RCat(<<r, RStar(r)>>)
RGrp(n, r) == [t |-> "grp", n |-> n, r |-> r]
RWordB == [t |-> "wordb"]
RBol == [t |-> "bol"]
REol == [t |-> "eol"]
RLit(s) == RCat([i \in 1..Len(s) |-> RSet({s[i]})])
\* . of Go's regexp: any character but a line feed
RDot == RNot({"\n"})
\* \s
RSpace == RSet({" ", "\t", "\n", "\r", "\f"})
RWord == RSet(WordChars)
RDigit == RSet(Digits)

NoCaps == <<-1, -1, -1, -1>>

IsWordAt(s, i) == i >= 0 /\ i < Len(s) /\ At(s, i) \in WordChars
\* \b at offset i
IsWordBoundary(s, i) == IsWordAt(s, i - 1) # IsWordAt(s, i)

RECURSIVE MatchFrom(_, _, _)
RECURSIVE MatchSeq(_, _, _, _)
RECURSIVE MatchEach(_, _, _, _)
\* the states (offset reached, captures) after matching re at state st
MatchFrom(re, s, st) ==
    CASE re.t = "set" ->
            IF st.pos < Len(s) /\ At(s, st.pos) \in re.cs
            THEN <<[st EXCEPT !.pos = @ + 1]>> ELSE <<>>
      [] re.t = "nset" ->
            IF st.pos < Len(s) /\ At(s, st.pos) \notin re.cs
            THEN <<[st EXCEPT !.pos = @ + 1]>> ELSE <<>>
      [] re.t = "cat" -> MatchSeq(re.rs, 1, s, <<st>>)
      [] re.t = "alt" ->
            Flatten([k \in 1..Len(re.rs) |-> MatchFrom(re.rs[k], s, st)])
      [] re.t = "star" ->
            LET once == SelectSeq(MatchFrom(re.r, s, st), LAMBDA x : x.pos > st.pos)
                more == MatchEach(re, s, once, 1)
            IN IF re.greedy THEN more \o <<st>> ELSE <<st>> \o more
      [] re.t = "grp" ->
            LET inner == MatchFrom(re.r, s, st)
            IN [k \in 1..Len(inner) |->
                  IF re.n > 2 THEN inner[k]
                  ELSE [inner[k] EXCEPT !.caps[2 * re.n - 1] = st.pos,
                                        !.caps[2 * re.n] = inner[k].pos]]
      [] re.t = "wordb" -> IF IsWordBoundary(s, st.pos) THEN <<st>> ELSE <<>>
      [] re.t = "bol" -> IF st.pos = 0 THEN <<st>> ELSE <<>>
      [] re.t = "eol" -> IF st.pos = Len(s) THEN <<st>> ELSE <<>>

\* the states after matching rs[k..] from each of the states sts, in order
MatchSeq(rs, k, s, sts) ==
    IF k > Len(rs) \/ sts = <<>> THEN sts
    ELSE MatchSeq(rs, k + 1, s, MatchEach(rs[k], s, sts, 1))

\* the states after matching re from each of sts[k..], in order
MatchEach(re, s, sts, k) ==
    IF k > Len(sts) THEN <<>>
    ELSE MatchFrom(re, s, sts[k]) \o MatchEach(re, s, sts, k + 1)

\* Go's match index array for the leftmost-first match starting exactly at
\* offset i: <<start, end, g1s, g1e, g2s, g2e>>, or <<>> when there is none
MatchAt(re, s, i) ==
    LET ms == MatchFrom(re, s, [pos |-> i, caps |-> NoCaps])
    IN IF ms = <<>> THEN <<>> ELSE <<i, ms[1].pos>> \o ms[1].caps

\* the leftmost match at or after offset pos
RECURSIVE Search(_, _, _)
Search(re, s, pos) ==
    IF pos > Len(s) THEN <<>>
    ELSE LET m == MatchAt(re, s, pos)
         IN IF m # <<>> THEN m ELSE Search(re, s, pos + 1)

\* regexp.FindAllStringSubmatchIndex(s, -1): successive non-overlapping
\* matches; an empty match right after the previous match is dropped
RECURSIVE AllMatchesFrom(_, _, _, _)
AllMatchesFrom(re, s, pos, prevEnd) ==
    IF pos > Len(s) THEN <<>>
    ELSE LET m == Search(re, s, pos)
         IN IF m = <<>> THEN <<>>
            ELSE LET empty == m[2] = pos
                     accept == ~(empty /\ m[1] = prevEnd)
                     next == IF empty THEN pos + 1 ELSE m[2]
                 IN (IF accept THEN <<m>> ELSE <<>>)
                      \o AllMatchesFrom(re, s, next, m[2])
FindAll(re, s) == AllMatchesFrom(re, s, 0, -1)

(***************************************************************************)
(* Grammar tables (setup*Highlighting): a keyword set and the pattern map  *)
(* of a SyntaxHighlighter, its entries in the order the source inserts     *)
(* them.  ncap is the pattern's number of capture groups (NumSubexp).      *)
(***************************************************************************)
Alpha == LowerAZ \cup UpperAZ
IdStart == Alpha \cup {"_"}
JsIdStart == Alpha \cup {"_", "$"}
JsIdChar == WordChars \cup {"$"}
HexDigits == Digits \cup {"a","b","c","d","e","f","A","B","C","D","E","F"}
OctDigits == {"0","1","2","3","4","5","6","7"}

Pat(type, ncap, re) == [type |-> type, ncap |-> ncap, re |-> re]

\* "([^"\\]|\\.)*" with its group numbered n
RDoubleQuoted(n) ==
    RCat(<<RSet({"\""}),
           RStar(RGrp(n, RAlt(<<RNot({"\"", "\\"}), RCat(<<RSet({"\\"}), RDot>>)>>))),
           RSet({"\""})>>)
\* '([^'\\]|\\.)*' with its group numbered n
RSingleQuoted(n) ==
    RCat(<<RSet({"'"}),
           RStar(RGrp(n, RAlt(<<RNot({"'", "\\"}), RCat(<<RSet({"\\"}), RDot>>)>>))),
           RSet({"'"})>>)
\* the character U+0060 (grave accent), which delimits Go raw strings and
\* JavaScript template strings; written BQ in the patterns quoted below
BackQuote == "BQ"
\* BQ[^BQ]*BQ
RBackQuoted == RCat(<<RSet({BackQuote}), RStar(RNot({BackQuote})), RSet({BackQuote})>>)
\* //.*$|/\*[\s\S]*?\*/
RSlashComment ==
    RAlt(<<RCat(<<RLit(<<"/", "/">>), RStar(RDot), REol>>),
           RCat(<<RLit(<<"/", "*">>), RLazyStar(RNot({})), RLit(<<"*", "/">>)>>)>>)
\* \d+(\.\d+)?([eE][+-]?\d+)?
RDecimal ==
    RCat(<<RPlus(RDigit),
           ROpt(RGrp(1, RCat(<<RSet({"."}), RPlus(RDigit)>>))),
           ROpt(RGrp(2, RCat(<<RSet({"e", "E"}), ROpt(RSet({"+", "-"})), RPlus(RDigit)>>)))>>)
\* [+\-*/=<>!&|^%]+
ROpRun == RPlus(RSet({"+", "-", "*", "/", "=", "<", ">", "!", "&", "|", "^", "%"}))

GoKeywords == {
    <<"b","r","e","a","k">>, <<"c","a","s","e">>, <<"c","h","a","n">>, <<"c","o","n","s","t">>,
    <<"c","o","n","t","i","n","u","e">>, <<"d","e","f","a","u","l","t">>, <<"d","e","f","e","r">>,
    <<"e","l","s","e">>, <<"f","a","l","l","t","h","r","o","u","g","h">>, <<"f","o","r">>,
    <<"f","u","n","c">>, <<"g","o">>, <<"g","o","t","o">>, <<"i","f">>, <<"i","m","p","o","r","t">>,
    <<"i","n","t","e","r","f","a","c","e">>, <<"m","a","p">>, <<"p","a","c","k","a","g","e">>,
    <<"r","a","n","g","e">>, <<"r","e","t","u","r","n">>, <<"s","e","l","e","c","t">>,
    <<"s","t","r","u","c","t">>, <<"s","w","i","t","c","h">>, <<"t","y","p","e">>, <<"v","a","r">>,
    <<"b","o","o","l">>, <<"b","y","t","e">>, <<"c","o","m","p","l","e","x","6","4">>,
    <<"c","o","m","p","l","e","x","1","2","8">>, <<"e","r","r","o","r">>,
    <<"f","l","o","a","t","3","2">>, <<"f","l","o","a","t","6","4">>, <<"i","n","t">>,
    <<"i","n","t","8">>, <<"i","n","t","1","6">>, <<"i","n","t","3","2">>, <<"i","n","t","6","4">>,
    <<"r","u","n","e">>, <<"s","t","r","i","n","g">>, <<"u","i","n","t">>, <<"u","i","n","t","8">>,
    <<"u","i","n","t","1","6">>, <<"u","i","n","t","3","2">>, <<"u","i","n","t","6","4">>,
    <<"u","i","n","t","p","t","r">>, <<"t","r","u","e">>, <<"f","a","l","s","e">>,
    <<"i","o","t","a">>, <<"n","i","l">>, <<"a","p","p","e","n","d">>, <<"c","a","p">>,
    <<"c","l","o","s","e">>, <<"c","o","m","p","l","e","x">>, <<"c","o","p","y">>,
    <<"d","e","l","e","t","e">>, <<"i","m","a","g">>, <<"l","e","n">>, <<"m","a","k","e">>,
    <<"n","e","w">>, <<"p","a","n","i","c">>, <<"p","r","i","n","t">>,
    <<"p","r","i","n","t","l","n">>, <<"r","e","a","l">>, <<"r","e","c","o","v","e","r">>}

JavaScriptKeywords == {
    <<"b","r","e","a","k">>, <<"c","a","s","e">>, <<"c","a","t","c","h">>, <<"c","l","a","s","s">>,
    <<"c","o","n","s","t">>, <<"c","o","n","t","i","n","u","e">>,
    <<"d","e","b","u","g","g","e","r">>, <<"d","e","f","a","u","l","t">>,
    <<"d","e","l","e","t","e">>, <<"d","o">>, <<"e","l","s","e">>, <<"e","x","p","o","r","t">>,
    <<"e","x","t","e","n","d","s">>, <<"f","i","n","a","l","l","y">>, <<"f","o","r">>,
    <<"f","u","n","c","t","i","o","n">>, <<"i","f">>, <<"i","m","p","o","r","t">>, <<"i","n">>,
    <<"i","n","s","t","a","n","c","e","o","f">>, <<"l","e","t">>, <<"n","e","w">>,
    <<"r","e","t","u","r","n">>, <<"s","u","p","e","r">>, <<"s","w","i","t","c","h">>,
    <<"t","h","i","s">>, <<"t","h","r","o","w">>, <<"t","r","y">>, <<"t","y","p","e","o","f">>,
    <<"v","a","r">>, <<"v","o","i","d">>, <<"w","h","i","l","e">>, <<"w","i","t","h">>,
    <<"y","i","e","l","d">>, <<"t","r","u","e">>, <<"f","a","l","s","e">>, <<"n","u","l","l">>,
    <<"u","n","d","e","f","i","n","e","d">>, <<"a","s","y","n","c">>, <<"a","w","a","i","t">>}

HTMLKeywords == {
    <<"h","t","m","l">>, <<"h","e","a","d">>, <<"b","o","d","y">>, <<"t","i","t","l","e">>,
    <<"m","e","t","a">>, <<"s","c","r","i","p","t">>, <<"s","t","y","l","e">>, <<"l","i","n","k">>,
    <<"d","i","v">>, <<"s","p","a","n">>, <<"p">>, <<"h","1">>, <<"h","2">>, <<"h","3">>,
    <<"h","4">>, <<"h","5">>, <<"h","6">>, <<"u","l">>, <<"o","l">>, <<"l","i">>, <<"a">>,
    <<"i","m","g">>, <<"t","a","b","l","e">>, <<"t","r">>, <<"t","d">>, <<"t","h">>,
    <<"c","a","p","t","i","o","n">>, <<"f","o","r","m">>, <<"i","n","p","u","t">>,
    <<"t","e","x","t","a","r","e","a">>, <<"b","u","t","t","o","n">>, <<"s","e","l","e","c","t">>,
    <<"o","p","t","i","o","n">>, <<"l","a","b","e","l">>, <<"b","r">>, <<"h","r">>,
    <<"b","l","o","c","k","q","u","o","t","e">>, <<"c","i","t","e">>, <<"c","o","d","e">>,
    <<"p","r","e">>, <<"k","b","d">>, <<"s","a","m","p">>, <<"v","a","r">>, <<"s","m","a","l","l">>,
    <<"s","t","r","o","n","g">>, <<"e","m">>, <<"b">>, <<"i">>, <<"u">>, <<"s">>, <<"d","e","l">>,
    <<"i","n","s">>, <<"s","u","p">>, <<"s","u","b">>, <<"m","a","r","k">>, <<"r","u","b","y">>,
    <<"r","t">>, <<"r","p">>, <<"b","d","i">>, <<"b","d","o">>, <<"i","f","r","a","m","e">>,
    <<"p","i","c","t","u","r","e">>, <<"s","o","u","r","c","e">>, <<"v","i","d","e","o">>,
    <<"a","u","d","i","o">>, <<"t","r","a","c","k">>, <<"c","a","n","v","a","s">>, <<"m","a","p">>,
    <<"a","r","e","a">>, <<"b","a","s","e">>, <<"n","a","v">>, <<"s","e","c","t","i","o","n">>,
    <<"a","r","t","i","c","l","e">>, <<"a","s","i","d","e">>, <<"h","e","a","d","e","r">>,
    <<"f","o","o","t","e","r">>, <<"m","a","i","n">>, <<"f","i","g","u","r","e">>,
    <<"f","i","g","c","a","p","t","i","o","n">>, <<"d","e","t","a","i","l","s">>,
    <<"s","u","m","m","a","r","y">>, <<"d","i","a","l","o","g">>, <<"m","e","n","u">>,
    <<"m","e","n","u","i","t","e","m">>}

CSSKeywords == {
    <<"c","o","l","o","r">>, <<"b","a","c","k","g","r","o","u","n","d">>, <<"f","o","n","t">>,
    <<"m","a","r","g","i","n">>, <<"p","a","d","d","i","n","g">>, <<"b","o","r","d","e","r">>,
    <<"w","i","d","t","h">>, <<"h","e","i","g","h","t">>, <<"d","i","s","p","l","a","y">>,
    <<"p","o","s","i","t","i","o","n">>, <<"t","o","p">>, <<"l","e","f","t">>,
    <<"r","i","g","h","t">>, <<"b","o","t","t","o","m">>, <<"f","l","o","a","t">>,
    <<"c","l","e","a","r">>, <<"t","e","x","t","-","a","l","i","g","n">>,
    <<"t","e","x","t","-","d","e","c","o","r","a","t","i","o","n">>,
    <<"f","o","n","t","-","s","i","z","e">>, <<"f","o","n","t","-","w","e","i","g","h","t">>,
    <<"f","o","n","t","-","f","a","m","i","l","y">>,
    <<"l","i","n","e","-","h","e","i","g","h","t">>,
    <<"l","e","t","t","e","r","-","s","p","a","c","i","n","g">>,
    <<"w","o","r","d","-","s","p","a","c","i","n","g">>,
    <<"w","h","i","t","e","-","s","p","a","c","e">>,
    <<"v","e","r","t","i","c","a","l","-","a","l","i","g","n">>,
    <<"l","i","s","t","-","s","t","y","l","e">>, <<"o","v","e","r","f","l","o","w">>,
    <<"v","i","s","i","b","i","l","i","t","y">>, <<"z","-","i","n","d","e","x">>,
    <<"c","u","r","s","o","r">>, <<"o","p","a","c","i","t","y">>,
    <<"t","r","a","n","s","f","o","r","m">>, <<"t","r","a","n","s","i","t","i","o","n">>,
    <<"a","n","i","m","a","t","i","o","n">>, <<"f","l","e","x">>, <<"g","r","i","d">>,
    <<"j","u","s","t","i","f","y","-","c","o","n","t","e","n","t">>,
    <<"a","l","i","g","n","-","i","t","e","m","s">>,
    <<"a","l","i","g","n","-","c","o","n","t","e","n","t">>,
    <<"f","l","e","x","-","d","i","r","e","c","t","i","o","n">>,
    <<"f","l","e","x","-","w","r","a","p">>, <<"o","r","d","e","r">>,
    <<"f","l","e","x","-","g","r","o","w">>, <<"f","l","e","x","-","s","h","r","i","n","k">>,
    <<"f","l","e","x","-","b","a","s","i","s">>,
    <<"g","r","i","d","-","t","e","m","p","l","a","t","e">>, <<"g","r","i","d","-","a","r","e","a">>}

setupGoHighlighting ==
    [keywords |-> GoKeywords,
     patterns |-> <<
        \* "([^"\\]|\\.)*"|BQ[^BQ]*BQ|'([^'\\]|\\.)*'
        Pat("TokenString", 2, RAlt(<<RDoubleQuoted(1), RBackQuoted, RSingleQuoted(2)>>)),
        Pat("TokenComment", 0, RSlashComment),
        \* \b\d+(\.\d+)?([eE][+-]?\d+)?\b|0[xX][0-9a-fA-F]+|0[0-7]+
        Pat("TokenNumber", 2,
            RAlt(<<RCat(<<RWordB, RDecimal, RWordB>>),
                   RCat(<<RSet({"0"}), RSet({"x", "X"}), RPlus(RSet(HexDigits))>>),
                   RCat(<<RSet({"0"}), RPlus(RSet(OctDigits))>>)>>)),
        \* [+\-*/=<>!&|^%]+|:=|<<|>>|\+\+|--|&&|\|\||<-|\.\.\.|\.\.
        Pat("TokenOperator", 0,
            RAlt(<<ROpRun, RLit(<<":", "=">>), RLit(<<"<", "<">>), RLit(<<">", ">">>), RLit(<<"+", "+">>),
                   RLit(<<"-", "-">>), RLit(<<"&", "&">>), RLit(<<"|", "|">>), RLit(<<"<", "-">>), RLit(<<".", ".", ".">>),
                   RLit(<<".", ".">>)>>)),
        \* \b(func\s+)?([a-zA-Z_][a-zA-Z0-9_]*)\s*\(
        Pat("TokenFunction", 2,
            RCat(<<RWordB, ROpt(RGrp(1, RCat(<<RLit(<<"f", "u", "n", "c">>), RPlus(RSpace)>>))),
                   RGrp(2, RCat(<<RSet(IdStart), RStar(RWord)>>)),
                   RStar(RSpace), RSet({"("})>>)),
        \* \.([a-zA-Z_][a-zA-Z0-9_]*)\s*\(
        Pat("TokenMethod", 1,
            RCat(<<RSet({"."}), RGrp(1, RCat(<<RSet(IdStart), RStar(RWord)>>)),
                   RStar(RSpace), RSet({"("})>>)),
        \* \b[A-Z][a-zA-Z0-9_]*\b
        Pat("TokenType_", 0, RCat(<<RWordB, RSet(UpperAZ), RStar(RWord), RWordB>>)),
        \* \b[A-Z][A-Z0-9_]*\b
        Pat("TokenConstant", 0,
            RCat(<<RWordB, RSet(UpperAZ), RStar(RSet(UpperAZ \cup Digits \cup {"_"})),
                   RWordB>>)),
        \* \b[a-z_][a-zA-Z0-9_]*\b
        Pat("TokenVariable", 0,
            RCat(<<RWordB, RSet(LowerAZ \cup {"_"}), RStar(RWord), RWordB>>)),
        \* \bpackage\s+\w+|\bimport\s+
        Pat("TokenPreprocessor", 0,
            RAlt(<<RCat(<<RWordB, RLit(<<"p", "a", "c", "k", "a", "g", "e">>), RPlus(RSpace), RPlus(RWord)>>),
                   RCat(<<RWordB, RLit(<<"i", "m", "p", "o", "r", "t">>), RPlus(RSpace)>>)>>))
     >>]

setupJavaScriptHighlighting ==
    [keywords |-> JavaScriptKeywords,
     patterns |-> <<
        \* "([^"\\]|\\.)*"|'([^'\\]|\\.)*'|BQ[^BQ]*BQ
        Pat("TokenString", 2, RAlt(<<RDoubleQuoted(1), RSingleQuoted(2), RBackQuoted>>)),
        Pat("TokenComment", 0, RSlashComment),
        \* \b\d+(\.\d+)?([eE][+-]?\d+)?\b|0[xX][0-9a-fA-F]+|0[bB][01]+|0[oO][0-7]+
        Pat("TokenNumber", 2,
            RAlt(<<RCat(<<RWordB, RDecimal, RWordB>>),
                   RCat(<<RSet({"0"}), RSet({"x", "X"}), RPlus(RSet(HexDigits))>>),
                   RCat(<<RSet({"0"}), RSet({"b", "B"}), RPlus(RSet({"0", "1"}))>>),
                   RCat(<<RSet({"0"}), RSet({"o", "O"}), RPlus(RSet(OctDigits))>>)>>)),
        \* [+\-*/=<>!&|^%]+|===|!==|==|!=|<=|>=|\+\+|--|&&|\|\||=>|\.\.\.
        Pat("TokenOperator", 0,
            RAlt(<<ROpRun, RLit(<<"=", "=", "=">>), RLit(<<"!", "=", "=">>), RLit(<<"=", "=">>), RLit(<<"!", "=">>),
                   RLit(<<"<", "=">>), RLit(<<">", "=">>), RLit(<<"+", "+">>), RLit(<<"-", "-">>), RLit(<<"&", "&">>),
                   RLit(<<"|", "|">>), RLit(<<"=", ">">>), RLit(<<".", ".", ".">>)>>)),
        \* \b(function\s+)?([a-zA-Z_$][a-zA-Z0-9_$]*)\s*\(|([a-zA-Z_$][a-zA-Z0-9_$]*)\s*=>
        Pat("TokenFunction", 3,
            RAlt(<<RCat(<<RWordB, ROpt(RGrp(1, RCat(<<RLit(<<"f", "u", "n", "c", "t", "i", "o", "n">>), RPlus(RSpace)>>))),
                          RGrp(2, RCat(<<RSet(JsIdStart), RStar(RSet(JsIdChar))>>)),
                          RStar(RSpace), RSet({"("})>>),
                   RCat(<<RGrp(3, RCat(<<RSet(JsIdStart), RStar(RSet(JsIdChar))>>)),
                          RStar(RSpace), RLit(<<"=", ">">>)>>)>>)),
        \* \b(class\s+)([a-zA-Z_$][a-zA-Z0-9_$]*)|(\bnew\s+)([A-Z][a-zA-Z0-9_$]*)
        Pat("TokenClass", 4,
            RAlt(<<RCat(<<RWordB, RGrp(1, RCat(<<RLit(<<"c", "l", "a", "s", "s">>), RPlus(RSpace)>>)),
                          RGrp(2, RCat(<<RSet(JsIdStart), RStar(RSet(JsIdChar))>>))>>),
                   RCat(<<RGrp(3, RCat(<<RWordB, RLit(<<"n", "e", "w">>), RPlus(RSpace)>>)),
                          RGrp(4, RCat(<<RSet(UpperAZ), RStar(RSet(JsIdChar))>>))>>)>>)),
        \* \.([a-zA-Z_$][a-zA-Z0-9_$]*)\s*\(
        Pat("TokenMethod", 1,
            RCat(<<RSet({"."}), RGrp(1, RCat(<<RSet(JsIdStart), RStar(RSet(JsIdChar))>>)),
                   RStar(RSpace), RSet({"("})>>)),
        \* \.([a-zA-Z_$][a-zA-Z0-9_$]*)
        Pat("TokenProperty", 1,
            RCat(<<RSet({"."}), RGrp(1, RCat(<<RSet(JsIdStart), RStar(RSet(JsIdChar))>>))>>)),
        \* /(?:[^/\\\n]|\\.)+/[gimuy]*
        Pat("TokenRegex", 0,
            RCat(<<RSet({"/"}),
                   RPlus(RAlt(<<RNot({"/", "\\", "\n"}), RCat(<<RSet({"\\"}), RDot>>)>>)),
                   RSet({"/"}), RStar(RSet({"g", "i", "m", "u", "y"}))>>)),
        \* \b(let|const|var)\s+([a-zA-Z_$][a-zA-Z0-9_$]*)
        Pat("TokenVariable", 2,
            RCat(<<RWordB, RGrp(1, RAlt(<<RLit(<<"l", "e", "t">>), RLit(<<"c", "o", "n", "s", "t">>), RLit(<<"v", "a", "r">>)>>)),
                   RPlus(RSpace),
                   RGrp(2, RCat(<<RSet(JsIdStart), RStar(RSet(JsIdChar))>>))>>))
     >>]

setupHTMLHighlighting ==
    [keywords |-> HTMLKeywords,
     patterns |-> <<
        \* <!--[\s\S]*?-->
        Pat("TokenComment", 0, RCat(<<RLit(<<"<", "!", "-", "-">>), RLazyStar(RNot({})), RLit(<<"-", "-", ">">>)>>)),
        \* <!DOCTYPE[^>]*>
        Pat("TokenDoctype", 0,
            RCat(<<RLit(<<"<", "!", "D", "O", "C", "T", "Y", "P", "E">>), RStar(RNot({">"})), RSet({">"})>>)),
        \* </?[a-zA-Z][a-zA-Z0-9]*
        Pat("TokenTag", 0,
            RCat(<<RSet({"<"}), ROpt(RSet({"/"})), RSet(Alpha),
                   RStar(RSet(Alpha \cup Digits))>>)),
        \* \b[a-zA-Z-]+\s*=
        Pat("TokenAttribute", 0,
            RCat(<<RWordB, RPlus(RSet(Alpha \cup {"-"})), RStar(RSpace), RSet({"="})>>)),
        \* "([^"\\]|\\.)*"|'([^'\\]|\\.)*'
        Pat("TokenValue", 2, RAlt(<<RDoubleQuoted(1), RSingleQuoted(2)>>)),
        \* &[a-zA-Z][a-zA-Z0-9]*;|&#\d+;|&#x[0-9a-fA-F]+;
        Pat("TokenEntity", 0,
            RAlt(<<RCat(<<RSet({"&"}), RSet(Alpha), RStar(RSet(Alpha \cup Digits)),
                          RSet({";"})>>),
                   RCat(<<RLit(<<"&", "#">>), RPlus(RDigit), RSet({";"})>>),
                   RCat(<<RLit(<<"&", "#", "x">>), RPlus(RSet(HexDigits)), RSet({";"})>>)>>)),
        \* [<>/=]
        Pat("TokenDelimiter", 0, RSet({"<", ">", "/", "="}))
     >>]

\* (px|em|rem|%|vh|vw|pt|pc|in|cm|mm|ex|ch|vmin|vmax|fr)
RCssUnit ==
    RAlt(<<RLit(<<"p", "x">>), RLit(<<"e", "m">>), RLit(<<"r", "e", "m">>), RLit(<<"%">>), RLit(<<"v", "h">>), RLit(<<"v", "w">>),
           RLit(<<"p", "t">>), RLit(<<"p", "c">>), RLit(<<"i", "n">>), RLit(<<"c", "m">>), RLit(<<"m", "m">>), RLit(<<"e", "x">>),
           RLit(<<"c", "h">>), RLit(<<"v", "m", "i", "n">>), RLit(<<"v", "m", "a", "x">>), RLit(<<"f", "r">>)>>)

setupCSSHighlighting ==
    [keywords |-> CSSKeywords,
     patterns |-> <<
        \* /\*[\s\S]*?\*/
        Pat("TokenComment", 0, RCat(<<RLit(<<"/", "*">>), RLazyStar(RNot({})), RLit(<<"*", "/">>)>>)),
        \* [.#]?[a-zA-Z][a-zA-Z0-9_-]*\s*[{,]|[a-zA-Z][a-zA-Z0-9_-]*\s*:
        Pat("TokenSelector", 0,
            RAlt(<<RCat(<<ROpt(RSet({".", "#"})), RSet(Alpha),
                          RStar(RSet(WordChars \cup {"-"})), RStar(RSpace),
                          RSet({"{", ","})>>),
                   RCat(<<RSet(Alpha), RStar(RSet(WordChars \cup {"-"})), RStar(RSpace),
                          RSet({":"})>>)>>)),
        \* [a-zA-Z-]+\s*:
        Pat("TokenProperty", 0,
            RCat(<<RPlus(RSet(Alpha \cup {"-"})), RStar(RSpace), RSet({":"})>>)),
        \* "([^"\\]|\\.)*"|'([^'\\]|\\.)*'
        Pat("TokenValue", 2, RAlt(<<RDoubleQuoted(1), RSingleQuoted(2)>>)),
        \* \b\d+(\.\d+)?(px|em|rem|%|vh|vw|pt|pc|in|cm|mm|ex|ch|vmin|vmax|fr)?\b
        Pat("TokenNumber", 2,
            RCat(<<RWordB, RPlus(RDigit),
                   ROpt(RGrp(1, RCat(<<RSet({"."}), RPlus(RDigit)>>))),
                   ROpt(RGrp(2, RCssUnit)), RWordB>>)),
        \* (px|em|rem|%|vh|vw|pt|pc|in|cm|mm|ex|ch|vmin|vmax|fr)\b
        Pat("TokenUnit", 1, RCat(<<RGrp(1, RCssUnit), RWordB>>)),
        \* :[a-zA-Z-]+(\([^)]*\))?
        Pat("TokenPseudo", 1,
            RCat(<<RSet({":"}), RPlus(RSet(Alpha \cup {"-"})),
                   ROpt(RGrp(1, RCat(<<RSet({"("}), RStar(RNot({")"})), RSet({")"})>>)))>>)),
        \* !important\b
        Pat("TokenImportant", 0, RCat(<<RLit(<<"!", "i", "m", "p", "o", "r", "t", "a", "n", "t">>), RWordB>>)),
        \* [{}();:,]
        Pat("TokenDelimiter", 0, RSet({"{", "}", "(", ")", ";", ":", ","}))
     >>]

\* a highlighter with no keywords and no patterns (PlainText and every
\* format NewSyntaxHighlighter has no case for)
NoGrammar == [keywords |-> {}, patterns |-> <<>>]

(***************************************************************************)
(* Syntax highlighters.  A highlighter is identified by its format field;  *)
(* the model holds the grammars of Go, JavaScript, HTML and CSS (the file  *)
(* names offered to the editor are limited to formats among these, JSON    *)
(* and plain text).                                                        *)
(***************************************************************************)
\* the formats NewSyntaxHighlighter's switch has a case for
SetupFormats == {"Go", "JavaScript", "Python", "HTML", "CSS", "Java", "Rust", "C",
                 "CPP", "PHP", "SquidPlusPlus", "PlainText"}

\* NewSyntaxHighlighter(format).format: a format without a case becomes PlainText
NewSyntaxHighlighter(format) == IF format \in SetupFormats THEN format ELSE "PlainText"

\* the keywords and patterns the setup function of a highlighter's format fills in
GrammarOf(hformat) ==
    CASE hformat = "Go" -> setupGoHighlighting
      [] hformat = "JavaScript" -> setupJavaScriptHighlighting
      [] hformat = "HTML" -> setupHTMLHighlighting
      [] hformat = "CSS" -> setupCSSHighlighting
      [] hformat = "PlainText" -> NoGrammar

\* setupEmbeddedHighlighters: the formats a top-level highlighter has a
\* sub-highlighter for
setupEmbeddedHighlighters(hformat) ==
    CASE hformat = "HTML" -> {"JavaScript", "CSS"}
      [] hformat = "PHP" -> {"JavaScript", "CSS"}
      [] hformat = "Shell" -> {"JavaScript", "Python"}
      [] OTHER -> {}

\* a sub-highlighter that registers JavaScript and CSS sub-highlighters of
\* its own
createBasicSyntaxHighlighterNested(format) ==
    [format |-> IF format \in SetupFormats \ {"SquidPlusPlus"} THEN format ELSE "PlainText",
     embeddedHighlighters |-> {"JavaScript", "CSS"}]

\* createBasicSyntaxHighlighter(format): the same grammar, and an empty
\* table of embedded highlighters
createBasicSyntaxHighlighter(format) ==
    [format |-> IF format \in SetupFormats \ {"SquidPlusPlus"} THEN format ELSE "PlainText",
     embeddedHighlighters |-> {}]

Token(type, start, end, context) ==
    [Type |-> type, Start |-> start, End |-> end, Context |-> context]

isPositionCovered(start, end, tokens) ==
    \E k \in 1..Len(tokens) : start >= tokens[k].Start /\ end <= tokens[k].End

\* the exchange sort of tokenizeLine and tokenizeLineWithContext:
\* for i { for j > i { if tokens[i].Start > tokens[j].Start { swap } } }
RECURSIVE SortInner(_, _, _)
SortInner(tokens, i, j) ==
    IF j > Len(tokens) THEN tokens
    ELSE IF tokens[i].Start > tokens[j].Start
         THEN SortInner([tokens EXCEPT ![i] = tokens[j], ![j] = tokens[i]], i, j + 1)
         ELSE SortInner(tokens, i, j + 1)
RECURSIVE SortOuter(_, _)
SortOuter(tokens, i) ==
    IF i > Len(tokens) THEN tokens ELSE SortOuter(SortInner(tokens, i, i + 1), i + 1)
SortByStart(tokens) == SortOuter(tokens, 1)

LiteralTypes == {"TokenString", "TokenComment", "TokenDoctype"}

\* Go leaves the order of a range over a map unspecified.  The orders the
\* model draws from: the rotations of the insertion order.
Rotations(n) == {[i \in 1..n |-> ((i + k - 1) % n) + 1] : k \in 0..(n - 1)}
MapOrders(patterns) == IF patterns = <<>> THEN {<<>>} ELSE Rotations(Len(patterns))
\* the order in which a range visits the literal (phase 1) patterns
LitOrder(patterns, ord) == SelectSeq(ord, LAMBDA k : patterns[k].type \in LiteralTypes)
\* the order in which a range visits the other (phase 3) patterns
RestOrder(patterns, ord) == SelectSeq(ord, LAMBDA k : patterns[k].type \notin LiteralTypes)
LitOrders(patterns) == {LitOrder(patterns, o) : o \in MapOrders(patterns)}
RestOrders(patterns) == {RestOrder(patterns, o) : o \in MapOrders(patterns)}

\* Phase 1 for one pattern: every match becomes a token
LiteralTokens(p, line, hformat) ==
    LET ms == Call("FindAll", <<p.re, line>>)
    IN [k \in 1..Len(ms) |-> Token(p.type, ms[k][1], ms[k][2], hformat)]

\* Phase 2: \b\w+\b words that are keywords and are not covered
RWords == RCat(<<RWordB, RPlus(RWord), RWordB>>)
RECURSIVE KeywordPhase(_, _, _, _, _, _)
KeywordPhase(words, k, line, keywords, hformat, tokens) ==
    IF k > Len(words) THEN tokens
    ELSE LET start == words[k][1]
             stop == words[k][2]
         IN IF isPositionCovered(start, stop, tokens) THEN
                KeywordPhase(words, k + 1, line, keywords, hformat, tokens)
            ELSE IF Slice(line, start, stop) \in keywords THEN
                KeywordPhase(words, k + 1, line, keywords, hformat,
                             Append(tokens, Token("TokenKeyword", start, stop, hformat)))
            ELSE KeywordPhase(words, k + 1, line, keywords, hformat, tokens)

\* the span tokenizeLine emits for a phase 3 match: group 1 when the pattern
\* has groups and group 1 took part, else the whole match
EmittedSpan(p, m) ==
    IF p.ncap >= 1 /\ m[3] # -1 THEN <<m[3], m[4]>> ELSE <<m[1], m[2]>>

\* Phase 3 for one pattern: each match not covered (the whole match is
\* tested) adds a token
RECURSIVE PatternMatches(_, _, _, _, _)
PatternMatches(p, ms, k, hformat, tokens) ==
    IF k > Len(ms) THEN tokens
    ELSE IF isPositionCovered(ms[k][1], ms[k][2], tokens) THEN
        PatternMatches(p, ms, k + 1, hformat, tokens)
    ELSE LET span == EmittedSpan(p, ms[k])
         IN PatternMatches(p, ms, k + 1, hformat,
                           Append(tokens, Token(p.type, span[1], span[2], hformat)))

RECURSIVE PatternPhase(_, _, _, _, _, _)
PatternPhase(patterns, ord, k, line, hformat, tokens) ==
    IF k > Len(ord) THEN tokens
    ELSE PatternPhase(patterns, ord, k + 1, line, hformat,
                      PatternMatches(patterns[ord[k]], Call("FindAll", <<patterns[ord[k]].re, line>>),
                                     1, hformat, tokens))

\* one pass of addContextSpecificTokens: group g of each match of re, when
\* that span is not covered, becomes a token of the given type
RECURSIVE GroupTokens(_, _, _, _, _, _)
GroupTokens(ms, k, g, type, hformat, tokens) ==
    IF k > Len(ms) THEN tokens
    ELSE LET start == ms[k][2 * g + 1]
             stop == ms[k][2 * g + 2]
         IN IF isPositionCovered(start, stop, tokens) THEN
                GroupTokens(ms, k + 1, g, type, hformat, tokens)
            ELSE GroupTokens(ms, k + 1, g, type, hformat,
                             Append(tokens, Token(type, start, stop, hformat)))

\* \b([A-Z]\w*)\s+\w+
RGoStructField ==
    RCat(<<RWordB, RGrp(1, RCat(<<RSet(UpperAZ), RStar(RWord)>>)), RPlus(RSpace),
           RPlus(RWord)>>)
\* func\s+\(.*?\)\s+(\w+)
RGoReceiver ==
    RCat(<<RLit(<<"f", "u", "n", "c">>), RPlus(RSpace), RSet({"("}), RLazyStar(RDot), RSet({")"}),
           RPlus(RSpace), RGrp(1, RPlus(RWord))>>)
\* (\w+)\s*=>
RJsArrow == RCat(<<RGrp(1, RPlus(RWord)), RStar(RSpace), RLit(<<"=", ">">>)>>)
\* \.(\w+)
RJsProperty == RCat(<<RSet({"."}), RGrp(1, RPlus(RWord))>>)
\* (\w+)=
RHtmlAttr == RCat(<<RGrp(1, RPlus(RWord)), RSet({"="})>>)
\* ^([.#]?\w+[\w-]*)\s*{?
RCssSelector ==
    RCat(<<RBol, RGrp(1, RCat(<<ROpt(RSet({".", "#"})), RPlus(RWord),
                                RStar(RSet(WordChars \cup {"-"}))>>)),
           RStar(RSpace), ROpt(RSet({"{"}))>>)

\* Phase 4
addContextSpecificTokens(hformat, line, tokens) ==
    CASE hformat = "Go" ->
            GroupTokens(Call("FindAll", <<RGoReceiver, line>>), 1, 1, "TokenFunction", hformat,
                GroupTokens(Call("FindAll", <<RGoStructField, line>>), 1, 1, "TokenType_", hformat,
                            tokens))
      [] hformat = "JavaScript" ->
            GroupTokens(Call("FindAll", <<RJsProperty, line>>), 1, 1, "TokenProperty", hformat,
                GroupTokens(Call("FindAll", <<RJsArrow, line>>), 1, 1, "TokenVariable", hformat,
                            tokens))
      [] hformat = "HTML" ->
            GroupTokens(Call("FindAll", <<RHtmlAttr, line>>), 1, 1, "TokenAttribute", hformat, tokens)
      [] hformat = "CSS" ->
            GroupTokens(Call("FindAll", <<RCssSelector, line>>), 1, 1, "TokenSelector", hformat, tokens)
      [] OTHER -> tokens

\* tokenizeLine, with the orders its two ranges over h.patterns take
tokenizeLine(hformat, line, litOrd, restOrd) ==
    IF hformat = "PlainText" THEN <<>>
    ELSE LET g == Call("GrammarOf", <<hformat>>)
             phase1 == SortByStart(Flatten([k \in 1..Len(litOrd) |->
                           LiteralTokens(g.patterns[litOrd[k]], line, hformat)]))
             phase2 == KeywordPhase(Call("FindAll", <<RWords, line>>), 1, line, g.keywords, hformat,
                                    phase1)
             phase3 == PatternPhase(g.patterns, restOrd, 1, line, hformat, phase2)
             phase4 == addContextSpecificTokens(hformat, line, phase3)
         IN SortByStart(phase4)

EmbeddedContext(format, start, end) == [Format |-> format, Start |-> start, End |-> end]

\* <script[^>]*>(.*?)</script>
RScriptBlock ==
    RCat(<<RLit(<<"<", "s", "c", "r", "i", "p", "t">>), RStar(RNot({">"})), RSet({">"}), RGrp(1, RLazyStar(RDot)),
           RLit(<<"<", "/", "s", "c", "r", "i", "p", "t", ">">>)>>)
\* <style[^>]*>(.*?)</style>
RStyleBlock ==
    RCat(<<RLit(<<"<", "s", "t", "y", "l", "e">>), RStar(RNot({">"})), RSet({">"}), RGrp(1, RLazyStar(RDot)),
           RLit(<<"<", "/", "s", "t", "y", "l", "e", ">">>)>>)

ContextsOf(re, format, line) ==
    LET ms == Call("FindAll", <<re, line>>)
    IN [k \in 1..Len(ms) |-> EmbeddedContext(format, ms[k][3], ms[k][4])]

detectEmbeddedContexts(hformat, line) ==
    CASE hformat = "HTML" ->
            ContextsOf(RScriptBlock, "JavaScript", line)
                \o ContextsOf(RStyleBlock, "CSS", line)
      [] OTHER -> <<>>

\* the tokens of one embedded context at the offsets they have in the
\* context's substring
EmbeddedTokensUnshifted(ctx, line, seed) ==
    LET sub == createBasicSyntaxHighlighter(ctx.Format)
        pats == Call("GrammarOf", <<sub.format>>).patterns
        ord == [i \in 1..Len(pats) |-> ((i + seed - 1) % Len(pats)) + 1]
        toks == tokenizeLine(sub.format, Slice(line, ctx.Start, ctx.End),
                             LitOrder(pats, ord), RestOrder(pats, ord))
    IN [k \in 1..Len(toks) |->
          Token(toks[k].Type, toks[k].Start, toks[k].End, ctx.Format)]

\* the offset-translated tokens of one embedded context
EmbeddedTokens(ctx, line, seed) ==
    LET sub == createBasicSyntaxHighlighter(ctx.Format)
        pats == Call("GrammarOf", <<sub.format>>).patterns
        ord == [i \in 1..Len(pats) |-> ((i + seed - 1) % Len(pats)) + 1]
        toks == tokenizeLine(sub.format, Slice(line, ctx.Start, ctx.End),
                             LitOrder(pats, ord), RestOrder(pats, ord))
    IN [k \in 1..Len(toks) |->
          Token(toks[k].Type, toks[k].Start + ctx.Start, toks[k].End + ctx.Start,
                ctx.Format)]

\* tokenizeLineWithContext: the tokens and the contexts of a line.  seed
\* fixes the map order the sub-highlighters' ranges take.
tokenizeLineWithContext(hformat, line, litOrd, restOrd, seed) ==
    IF hformat = "PlainText" THEN [tokens |-> <<>>, contexts |-> <<>>]
    ELSE LET contexts == detectEmbeddedContexts(hformat, line)
             own == tokenizeLine(hformat, line, litOrd, restOrd)
             emb == Flatten([k \in 1..Len(contexts) |->
                        IF contexts[k].Format \in setupEmbeddedHighlighters(hformat)
                        THEN EmbeddedTokens(contexts[k], line, seed) ELSE <<>>])
         IN [tokens |-> SortByStart(own \o emb), contexts |-> contexts]

\* most entries a pattern map of the model holds
MaxMapSeeds(hformat, line) ==
    IF detectEmbeddedContexts(hformat, line) = <<>> THEN {0} ELSE 0..9

\* every (tokens, contexts) a call of tokenizeLineWithContext may return
TokenizeResults(hformat, line) ==
    LET pats == Call("GrammarOf", <<hformat>>).patterns
    IN {Call("tokenizeLineWithContext", <<hformat, line, lo, ro, seed>>) :
            lo \in LitOrders(pats), ro \in RestOrders(pats),
            seed \in MaxMapSeeds(hformat, line)}

(***************************************************************************)
(* The editor.  The value of e is the Editor struct; a handler is an       *)
(* operator from the struct (and the key event) to the struct it leaves    *)
(* and the way it ends: "running", "panicked" (a Go run-time panic: index  *)
(* or slice bounds out of range) or "exited" (os.Exit).                    *)
(***************************************************************************)
Running(ed) == [ed |-> ed, st |-> "running"]
Panicked(ed) == [ed |-> ed, st |-> "panicked"]
Exited(ed) == [ed |-> ed, st |-> "exited"]

\* e.lines[i], e.lineTokens[i] for a Go index i
LineAt(ed, i) == ed.lines[i + 1]
InRange(i, n) == i >= 0 /\ i < n

\* the characters the model's buffers are made of
BufferChars == {"{", "}", "\t"}
\* every line of at most n buffer characters
LinesUpTo(n) == UNION {[1..k -> BufferChars] : k \in 0..n}
\* the formats whose highlighter has patterns, among those of the files the
\* model offers
PatternFormats == {"CSS", "JavaScript"}

\* the offsets a range over the highlighter's pattern map may start from:
\* the first MaxSeeds of them
MapSeeds(hformat) ==
    LET n == Len(Call("GrammarOf", <<hformat>>).patterns)
    IN IF n = 0 THEN {0} ELSE 0..(Min(n, MaxSeeds) - 1)

\* tokenizeLineWithContext under the map order that starts at offset seed
TokenizeSeeded(hformat, line, seed) ==
    LET pats == Call("GrammarOf", <<hformat>>).patterns
        n == Len(pats)
        ord == [i \in 1..n |-> ((i + seed - 1) % n) + 1]
    IN Call("tokenizeLineWithContext",
            <<hformat, line, LitOrder(pats, ord), RestOrder(pats, ord), seed>>)

\* the one line of the HTML page the model opens, and the parts of it
PageText == <<"}", "<", "s", "t", "y", "l", "e", ">", "{", "<", "/", "s", "t", "y", "l", "e", ">">>
PageLines == {Slice(PageText, i, j) : i \in 0..Len(PageText), j \in 0..Len(PageText)}

\* the results for the lines the model's buffers hold most, computed once:
\* the tuples <<format, line, seed, result>>
TokenTable ==
    {<<f, l, s, TokenizeSeeded(f, l, s)>> :
        f \in PatternFormats, l \in LinesUpTo(MaxChars), s \in 0..(MaxSeeds - 1)}
    \cup {<<"HTML", l, s, TokenizeSeeded("HTML", l, s)>> :
            l \in PageLines, s \in 0..(MaxSeeds - 1)}

Tokenize(hformat, line, seed) ==
    IF \/ hformat \in PatternFormats /\ line \in LinesUpTo(MaxChars)
       \/ hformat = "HTML" /\ line \in PageLines
    THEN (CHOOSE t \in TokenTable : t[1] = hformat /\ t[2] = line /\ t[3] = seed)[4]
    ELSE TokenizeSeeded(hformat, line, seed)

\* an updateLineTokens that empties the token entries of the other lines
updateLineTokensDroppingOthers(ed, lineIdx, seed) ==
    IF lineIdx >= Len(ed.lines) \/ lineIdx >= Len(ed.lineTokens) THEN ed
    ELSE LET r == Call("Tokenize", <<ed.highlighter, LineAt(ed, lineIdx), seed>>)
         IN [ed EXCEPT !.lineTokens = [i \in 1..Len(ed.lineTokens) |->
                                          IF i = lineIdx + 1 THEN r.tokens ELSE <<>>],
                       !.embeddedContexts[lineIdx + 1] = r.contexts]

updateLineTokens(ed, lineIdx, seed) ==
    IF lineIdx >= Len(ed.lines) \/ lineIdx >= Len(ed.lineTokens) THEN ed
    ELSE LET r == Call("Tokenize", <<ed.highlighter, LineAt(ed, lineIdx), seed>>)
         IN [ed EXCEPT !.lineTokens[lineIdx + 1] = r.tokens,
                       !.embeddedContexts[lineIdx + 1] = r.contexts]

updateSyntaxHighlighting(ed, seed) ==
    LET rs == [i \in 1..Len(ed.lines) |-> Call("Tokenize", <<ed.highlighter, ed.lines[i], seed>>)]
    IN [ed EXCEPT !.lineTokens = [i \in 1..Len(ed.lines) |-> rs[i].tokens],
                  !.embeddedContexts = [i \in 1..Len(ed.lines) |-> rs[i].contexts]]

\* filepath.Ext: the suffix from the last dot of the last path element
RECURSIVE Ext(_)
Ext(name) ==
    IF name = <<>> \/ name[Len(name)] = "/" THEN <<>>
    ELSE IF name[Len(name)] = "." THEN <<".">>
    ELSE LET rest == Ext(SubSeq(name, 1, Len(name) - 1))
         IN IF rest = <<>> THEN <<>> ELSE Append(rest, name[Len(name)])

FormatOfExt(ext) ==
    CASE ext = <<".", "g", "o">> -> "Go"
      [] ext \in {<<".", "j", "s">>, <<".", "j", "s", "x">>} -> "JavaScript"
      [] ext = <<".", "p", "y">> -> "Python"
      [] ext \in {<<".", "h", "t", "m", "l">>, <<".", "h", "t", "m">>} -> "HTML"
      [] ext = <<".", "c", "s", "s">> -> "CSS"
      [] ext = <<".", "j", "s", "o", "n">> -> "JSON"
      [] ext \in {<<".", "m", "d">>, <<".", "m", "a", "r", "k", "d", "o", "w", "n">>} -> "Markdown"
      [] ext \in {<<".", "s", "h">>, <<".", "b", "a", "s", "h">>} -> "Shell"
      [] ext = <<".", "c">> -> "C"
      [] ext \in {<<".", "c", "p", "p">>, <<".", "c", "c">>, <<".", "c", "x", "x">>} -> "CPP"
      [] ext = <<".", "r", "s">> -> "Rust"
      [] ext = <<".", "j", "a", "v", "a">> -> "Java"
      [] ext = <<".", "p", "h", "p">> -> "PHP"
      [] ext = <<".", "s", "q", "d">> -> "SquidPlusPlus"
      [] OTHER -> "PlainText"

detectFormat(ed) ==
    IF ed.filename = <<>>
    THEN [ed EXCEPT !.format = "PlainText", !.highlighter = NewSyntaxHighlighter("PlainText")]
    ELSE LET f == FormatOfExt(ToLower(Ext(ed.filename)))
         IN [ed EXCEPT !.format = f, !.highlighter = NewSyntaxHighlighter(f)]

\* no open file
NilFile == [open |-> FALSE, text |-> <<>>]

NewEditor ==
    [lines |-> <<<<>>>>, cursorLine |-> 0, cursorCol |-> 0, cursorVisualCol |-> 0,
     horizOffset |-> 0, scrollOffset |-> 0, fileHandle |-> NilFile, fileOffsetLines |-> 0,
     partialLoad |-> FALSE, mode |-> "Interactive", commandBuf |-> <<>>, findBuf |-> <<>>,
     findResults |-> <<>>, findIndex |-> 0, filename |-> <<>>, dirty |-> FALSE,
     savePending |-> FALSE, quitPending |-> FALSE, format |-> "PlainText",
     encoding |-> "utf-8", highlighter |-> NewSyntaxHighlighter("PlainText"),
     lineTokens |-> <<<<>>>>, embeddedContexts |-> <<<<>>>>]

\* The part of Run before its loop.  arg is os.Args[1:]: <<>> or <<name>>;
\* content is what ioutil.ReadFile finds: a text, or "unreadable".
Load(arg, content, seed) ==
    IF arg = <<>> THEN NewEditor
    ELSE LET named == detectFormat([NewEditor EXCEPT !.filename = arg[1]])
         IN IF content = "unreadable" THEN [named EXCEPT !.dirty = TRUE]
            ELSE LET split == SplitLines(content)
                     kept == IF split[Len(split)] = <<>>
                             THEN SubSeq(split, 1, Len(split) - 1) ELSE split
                     ls == IF content = <<>> \/ kept = <<>> THEN <<<<>>>> ELSE kept
                 IN updateSyntaxHighlighting(
                        [named EXCEPT !.lines = ls, !.dirty = FALSE, !.partialLoad = FALSE,
                                      !.fileHandle = NilFile,
                                      !.fileOffsetLines = Len(ls)], seed)

\* tab stops of visualColForByteCol
TabWidth == 4

RECURSIVE visualColFrom(_, _, _, _)
visualColFrom(line, byteCol, i, col) ==
    IF ~(i < byteCol /\ i < Len(line)) THEN col
    ELSE IF At(line, i) = "\t"
         THEN visualColFrom(line, byteCol, i + 1, col + (TabWidth - (col % TabWidth)))
         ELSE visualColFrom(line, byteCol, i + 1, col + 1)
visualColForByteCol(line, byteCol) == visualColFrom(line, byteCol, 0, 0)

\* a byteColForVisualCol that counts a tab as one column
byteColForVisualColFlat(line, target) == Min(target, Len(line))

\* byteColForVisualCol: the index of the first byte whose last column is
\* beyond target, len(line) when there is none
RECURSIVE byteColFrom(_, _, _, _)
byteColFrom(line, target, i, col) ==
    IF ~(i < Len(line)) THEN Len(line)
    ELSE LET spaces == IF At(line, i) = "\t" THEN TabWidth - (col % TabWidth) ELSE 1
         IN IF col + spaces > target THEN i
            ELSE byteColFrom(line, target, i + 1, col + spaces)
byteColForVisualCol(line, target) == byteColFrom(line, target, 0, 0)

updateCursorVisualCol(ed) ==
    IF ed.cursorLine < 0 \/ ed.cursorLine >= Len(ed.lines)
    THEN [ed EXCEPT !.cursorVisualCol = 0]
    ELSE [ed EXCEPT !.cursorVisualCol =
                        visualColForByteCol(LineAt(ed, ed.cursorLine), ed.cursorCol)]

fixCursorCol(ed) ==
    IF ed.cursorCol > Len(LineAt(ed, ed.cursorLine))
    THEN [ed EXCEPT !.cursorCol = Len(LineAt(ed, ed.cursorLine))] ELSE ed

adjustScroll(ed) ==
    LET height == ScreenH - 5
        up == IF ed.cursorLine < ed.scrollOffset THEN ed.cursorLine ELSE ed.scrollOffset
    IN [ed EXCEPT !.scrollOffset =
            IF ed.cursorLine >= up + height THEN ed.cursorLine - height + 1 ELSE up]

pageSize == ScreenH - 5

\* number of decimal digits of n >= 0
RECURSIVE DecimalDigits(_)
DecimalDigits(n) == IF n < 10 THEN 1 ELSE 1 + DecimalDigits(n \div 10)

getLineNumberWidth(ed) ==
    IF Len(ed.lines) = 0 THEN 4 ELSE DecimalDigits(Len(ed.lines)) + 3

\* len(fmt.Sprintf("%*d%s ", lineNumWidth-2, n, prefix)), prefix one character
LineNumStrLen(ed, n) == Max(getLineNumberWidth(ed) - 2, DecimalDigits(n)) + 2

\* the lines Render asks loadMoreLines for
LoadBatch == 1000

\* readLinesFromReader on the text a reader holds: the lines read and the
\* text left
RECURSIVE readLinesFromReader(_, _)
readLinesFromReader(text, maxLines) ==
    IF maxLines = 0 THEN [lines |-> <<>>, rest |-> text]
    ELSE LET i == Index(text, <<"\n">>)
         IN IF i < 0
            THEN [lines |-> IF text # <<>> THEN <<TrimRight(text, {"\n"})>> ELSE <<>>,
                  rest |-> <<>>]
            ELSE LET more == readLinesFromReader(SliceFrom(text, i + 1), maxLines - 1)
                 IN [lines |-> <<TrimRight(Slice(text, 0, i + 1), {"\n"})>> \o more.lines,
                     rest |-> more.rest]

\* a loadMoreLines that returns at once only when the file is closed and
\* the load is not partial
loadMoreLinesWhenBoth(ed, n, seed) ==
    IF ~ed.fileHandle.open /\ ~ed.partialLoad THEN ed
    ELSE LET got == readLinesFromReader(ed.fileHandle.text, n)
             grown == IF got.lines # <<>>
                      THEN updateSyntaxHighlighting(
                               [ed EXCEPT !.lines = ed.lines \o got.lines,
                                          !.fileOffsetLines = Len(ed.lines) + Len(got.lines)],
                               seed)
                      ELSE ed
         IN IF got.rest = <<>>
            THEN [grown EXCEPT !.fileHandle = NilFile, !.partialLoad = FALSE]
            ELSE [grown EXCEPT !.fileHandle.text = <<>>]

\* a loadMoreLines that puts the lines it read before those of the buffer
loadMoreLinesPrepending(ed, n, seed) ==
    IF ~ed.fileHandle.open \/ ~ed.partialLoad THEN ed
    ELSE LET got == readLinesFromReader(ed.fileHandle.text, n)
             grown == IF got.lines # <<>>
                      THEN updateSyntaxHighlighting(
                               [ed EXCEPT !.lines = got.lines \o ed.lines,
                                          !.fileOffsetLines = Len(ed.lines) + Len(got.lines)],
                               seed)
                      ELSE ed
         IN IF got.rest = <<>>
            THEN [grown EXCEPT !.fileHandle = NilFile, !.partialLoad = FALSE]
            ELSE [grown EXCEPT !.fileHandle.text = <<>>]

\* loadMoreLines(n), for a file the reader's buffer holds whole: what the
\* reader fetched and did not hand out is gone with the reader
loadMoreLines(ed, n, seed) ==
    IF ~ed.fileHandle.open \/ ~ed.partialLoad THEN ed
    ELSE LET got == readLinesFromReader(ed.fileHandle.text, n)
             grown == IF got.lines # <<>>
                      THEN updateSyntaxHighlighting(
                               [ed EXCEPT !.lines = ed.lines \o got.lines,
                                          !.fileOffsetLines = Len(ed.lines) + Len(got.lines)],
                               seed)
                      ELSE ed
         IN IF got.rest = <<>>
            THEN [grown EXCEPT !.fileHandle = NilFile, !.partialLoad = FALSE]
            ELSE [grown EXCEPT !.fileHandle.text = <<>>]

\* a token of a drawn line that indexes visMap beyond the line
DrawPanics(ed, lineIdx) ==
    /\ lineIdx < Len(ed.lines) /\ lineIdx < Len(ed.lineTokens)
    /\ \E k \in 1..Len(ed.lineTokens[lineIdx + 1]) :
          LET t == ed.lineTokens[lineIdx + 1][k]
          IN ~(InRange(t.Start, Len(LineAt(ed, lineIdx)) + 1)
               /\ InRange(t.End, Len(LineAt(ed, lineIdx)) + 1))

\* the first column drawHighlightedLineWithHScroll draws of a line: the
\* horizontal offset as the pass finds it
visStart(ed) == IF ed.horizOffset < 0 THEN 0 ELSE ed.horizOffset

\* a Render that leaves the horizontal offset where it was
RenderWithoutScroll(ed, seed) ==
    LET height == ScreenH - 5
        visible == {idx \in ed.scrollOffset..(ed.scrollOffset + height - 1) :
                        idx >= 0 /\ idx < Len(ed.lines)}
    IN IF \E idx \in visible : DrawPanics(ed, idx) THEN Panicked(ed)
       ELSE LET loaded == IF ed.partialLoad /\ ed.cursorLine > Len(ed.lines) - 100
                          THEN Call("loadMoreLines", <<ed, LoadBatch, seed>>) ELSE ed
            IN Running(updateCursorVisualCol(loaded))

\* Render: what it leaves in the struct
Render(ed, seed) ==
    LET height == ScreenH - 5
        visible == {idx \in ed.scrollOffset..(ed.scrollOffset + height - 1) :
                        idx >= 0 /\ idx < Len(ed.lines)}
    IN IF \E idx \in visible : DrawPanics(ed, idx) THEN Panicked(ed)
       ELSE LET loaded == IF ed.partialLoad /\ ed.cursorLine > Len(ed.lines) - 100
                          THEN Call("loadMoreLines", <<ed, LoadBatch, seed>>) ELSE ed
                numLen == LineNumStrLen(ed, ed.cursorLine + 1)
                vis == updateCursorVisualCol(loaded)
                left == IF vis.cursorVisualCol < vis.horizOffset
                        THEN vis.cursorVisualCol ELSE vis.horizOffset
                maxVisible == ScreenW - numLen - 2
            IN Running([vis EXCEPT !.horizOffset =
                            IF vis.cursorVisualCol >= left + maxVisible
                            THEN vis.cursorVisualCol - maxVisible + 1 ELSE left])

(***************************************************************************)
(* Interactive mode.                                                       *)
(***************************************************************************)
\* a key event: tcell's Key(), the Ctrl and Alt modifiers, and Rune()
Key(k) == [key |-> k, ctrl |-> FALSE, alt |-> FALSE, rune |-> ""]
CtrlKey(k) == [key |-> k, ctrl |-> TRUE, alt |-> FALSE, rune |-> ""]
AltKey(k) == [key |-> k, ctrl |-> FALSE, alt |-> TRUE, rune |-> ""]
RuneKey(r) == [key |-> "KeyRune", ctrl |-> FALSE, alt |-> FALSE, rune |-> r]

IsBlank(c) == c = " " \/ c = "\t"

RECURSIVE SkipLeft(_, _, _)
SkipLeft(line, i, blank) ==
    IF i >= 0 /\ IsBlank(At(line, i)) = blank THEN SkipLeft(line, i - 1, blank) ELSE i
\* prevWordStart; it indexes line[col-1], so the caller panics when col > len(line)
prevWordStart(line, col) ==
    IF col = 0 THEN 0
    ELSE Max(SkipLeft(line, SkipLeft(line, col - 1, TRUE), FALSE) + 1, 0)
prevWordStartPanics(line, col) == col # 0 /\ col - 1 >= Len(line)

RECURSIVE SkipRight(_, _, _)
SkipRight(line, i, blank) ==
    IF i < Len(line) /\ IsBlank(At(line, i)) = blank THEN SkipRight(line, i + 1, blank) ELSE i
nextWordEnd(line, col) ==
    IF col >= Len(line) THEN Len(line)
    ELSE SkipRight(line, SkipRight(line, col, TRUE), FALSE)

RECURSIVE detectIndentationLen(_, _)
detectIndentationLen(line, i) ==
    IF i < Len(line) /\ IsBlank(At(line, i)) THEN detectIndentationLen(line, i + 1) ELSE i
detectIndentation(line) == Slice(line, 0, detectIndentationLen(line, 0))

blockKeywords ==
    <<<<"i", "f">>, <<"e", "l", "s", "e">>, <<"e", "l", "i", "f">>, <<"w", "h", "i", "l", "e">>, <<"f", "o", "r">>, <<"s", "w", "i", "t", "c", "h">>, <<"c", "a", "s", "e">>, <<"d", "e", "f", "a", "u", "l", "t">>, <<"t", "r", "y">>,
      <<"c", "a", "t", "c", "h">>, <<"f", "i", "n", "a", "l", "l", "y">>, <<"f", "u", "n", "c", "t", "i", "o", "n">>, <<"c", "l", "a", "s", "s">>, <<"s", "t", "r", "u", "c", "t">>, <<"i", "n", "t", "e", "r", "f", "a", "c", "e">>, <<"d", "o">>,
      <<"f", "o", "r", "e", "a", "c", "h">>, <<"m", "a", "t", "c", "h">>, <<"i", "m", "p", "l">>, <<"t", "r", "a", "i", "t">>, <<"m", "o", "d">>, <<"f", "n">>, <<"e", "l">>>>
endsWithBlockKeyword(line) ==
    \E k \in 1..Len(blockKeywords) : HasSuffix(line, blockKeywords[k])

squidKeywords == <<<<"i", "f">>, <<"e", "l">>, <<"w", "h", "i", "l", "e">>, <<"f", "o", "r">>, <<"d", "e", "f">>, <<"{">>>>
endsWithSquidPlusPlusBlockKeyword(line) ==
    \E k \in 1..Len(squidKeywords) :
        HasSuffix(line, squidKeywords[k]) \/ HasSuffix(line, squidKeywords[k] \o <<" ", "{">>)

pythonKeywords ==
    <<<<"i", "f">>, <<"e", "l", "i", "f">>, <<"e", "l", "s", "e">>, <<"w", "h", "i", "l", "e">>, <<"f", "o", "r">>, <<"d", "e", "f">>, <<"c", "l", "a", "s", "s">>, <<"t", "r", "y">>, <<"e", "x", "c", "e", "p", "t">>,
      <<"f", "i", "n", "a", "l", "l", "y">>, <<"w", "i", "t", "h">>, <<"a", "s", "y", "n", "c", " ", "d", "e", "f">>, <<"a", "s", "y", "n", "c", " ", "w", "i", "t", "h">>, <<"m", "a", "t", "c", "h">>, <<"c", "a", "s", "e">>>>
endsWithPythonBlockKeyword(line) ==
    \E k \in 1..Len(pythonKeywords) : HasSuffix(line, pythonKeywords[k] \o <<":">>)

getSmartIndentation(ed, lineIdx) ==
    IF lineIdx <= 0 THEN <<>>
    ELSE LET prevLine == LineAt(ed, lineIdx - 1)
             baseIndent == detectIndentation(prevLine)
             trimmed == TrimSpace(prevLine)
             lastChar == IF trimmed = <<>> THEN "" ELSE trimmed[Len(trimmed)]
             deeper == baseIndent \o <<"\t">>
             trimmedLower == ToLower(trimmed)
         IN IF lastChar \in {"{", "[", "("} THEN deeper
            ELSE IF lastChar = ":" /\ ed.format \in {"Python", "CSS"} THEN deeper
            ELSE IF /\ lastChar = ">" /\ Contains(trimmed, <<"<">>)
                    /\ ~HasSuffix(trimmed, <<"/", ">">>) /\ ~HasSuffix(trimmed, <<"-", "-", ">">>)
                    /\ ~Contains(trimmed, <<"<", "!">>)
                    /\ Count(trimmed, <<"<">>) - Count(trimmed, <<"<", "/">>) > 0 THEN deeper
            ELSE IF /\ ed.format \in {"Go", "C", "CPP", "Java", "JavaScript", "PHP", "Rust"}
                    /\ endsWithBlockKeyword(trimmedLower) THEN deeper
            ELSE IF ed.format = "Python" /\ endsWithPythonBlockKeyword(trimmedLower)
                 THEN deeper
            ELSE IF /\ ed.format = "SquidPlusPlus"
                    /\ endsWithSquidPlusPlusBlockKeyword(trimmedLower) THEN deeper
            ELSE baseIndent

getDedentedIndentation(indent) ==
    IF Len(indent) = 0 THEN <<>>
    ELSE IF indent[Len(indent)] = "\t" THEN SubSeq(indent, 1, Len(indent) - 1)
    ELSE IF Len(indent) >= 4 /\ SliceFrom(indent, Len(indent) - 4) = <<" ", " ", " ", " ">>
         THEN SubSeq(indent, 1, Len(indent) - 4)
    ELSE indent

\* s[:i] ++ ins ++ s[j:] of a sequence of anything
Splice(s, i, ins, j) == SubSeq(s, 1, i) \o ins \o SubSeq(s, j + 1, Len(s))

BracketPair(prev, next) ==
    \/ prev = "{" /\ next = "}"
    \/ prev = "[" /\ next = "]"
    \/ prev = "(" /\ next = ")"

autoClosePairs ==
    <<[open |-> "(", close |-> ")"], [open |-> "[", close |-> "]"],
      [open |-> "{", close |-> "}"], [open |-> "\"", close |-> "\""],
      [open |-> "'", close |-> "'"], [open |-> BackQuote, close |-> BackQuote]>>

\* a shouldAutoCloseQuote that counts the quotes of the whole line
shouldAutoCloseQuoteWholeLine(ed, quote, line) ==
    Cardinality({i \in 0..(Len(line) - 1) : At(line, i) = quote}) % 2 = 0

shouldAutoCloseQuote(ed, quote, line) ==
    Cardinality({i \in 0..(Min(ed.cursorCol, Len(line)) - 1) : At(line, i) = quote}) % 2 = 0

\* an insertAutoClosePair that leaves the tokens of the line as they were
insertAutoClosePairKeepingTokens(ed, open, close, seed) ==
    LET ln == LineAt(ed, ed.cursorLine)
    IN IF ed.cursorCol > Len(ln) THEN Panicked(ed)
       ELSE Running([ed EXCEPT !.lines[ed.cursorLine + 1] =
                                   Splice(ln, ed.cursorCol, <<open, close>>, ed.cursorCol),
                               !.cursorCol = ed.cursorCol + 1])

\* insertAutoClosePair; it slices the line at cursorCol
insertAutoClosePair(ed, open, close, seed) ==
    LET ln == LineAt(ed, ed.cursorLine)
    IN IF ed.cursorCol > Len(ln) THEN Panicked(ed)
       ELSE Running(updateLineTokens(
                [ed EXCEPT !.lines[ed.cursorLine + 1] =
                               Splice(ln, ed.cursorCol, <<open, close>>, ed.cursorCol),
                           !.cursorCol = ed.cursorCol + 1], ed.cursorLine, seed))

\* the loop of handleRuneInput over autoClosePairs from entry k on; ln is the
\* line as it was when handleRuneInput began
RECURSIVE autoCloseLoop(_, _, _, _, _)
autoCloseLoop(ed, r, ln, k, seed) ==
    IF k > Len(autoClosePairs) THEN
        \* regular character insertion
        IF ed.cursorCol > Len(ln) THEN Panicked(ed)
        ELSE Running(updateLineTokens(
                 [ed EXCEPT !.lines[ed.cursorLine + 1] =
                                Splice(ln, ed.cursorCol, <<r>>, ed.cursorCol),
                            !.cursorCol = ed.cursorCol + 1], ed.cursorLine, seed))
    ELSE LET pair == autoClosePairs[k]
         IN IF r = pair.open THEN
                IF pair.open = pair.close THEN
                    IF shouldAutoCloseQuote(ed, r, ln)
                    THEN insertAutoClosePair(ed, r, pair.close, seed)
                    ELSE autoCloseLoop(ed, r, ln, k + 1, seed)
                ELSE insertAutoClosePair(ed, r, pair.close, seed)
            ELSE IF r = pair.close /\ pair.open # pair.close THEN
                IF ed.cursorCol < Len(ln) /\ At(ln, ed.cursorCol) = r
                THEN Running([ed EXCEPT !.cursorCol = ed.cursorCol + 1])
                ELSE autoCloseLoop(ed, r, ln, k + 1, seed)
            ELSE autoCloseLoop(ed, r, ln, k + 1, seed)

handleRuneInput(ed, r, seed) ==
    LET ln == LineAt(ed, ed.cursorLine)
        currentIndent == detectIndentation(ln)
        dedentedIndent == Call("getDedentedIndentation", <<currentIndent>>)
        dedented ==
            IF /\ r \in {"}", "]", ")"}
               /\ ed.cursorCol = Len(TrimLeft(ln, {" ", "\t"}))
               /\ Len(currentIndent) > 0
            THEN [ed EXCEPT !.lines[ed.cursorLine + 1] =
                                dedentedIndent \o TrimLeft(ln, {" ", "\t"}),
                            !.cursorCol = Len(dedentedIndent)]
            ELSE ed
    IN autoCloseLoop(dedented, r, ln, 1, seed)

\* KeyEnter where the line split keeps its text after the cursor (keepRest)
\* and the line between a bracket pair gets no tab of its own (flatInner)
enterVariant(ed, ln, seed, keepRest, flatInner) ==
    LET col == ed.cursorCol
        line == ed.cursorLine
        newLine == IF col < Len(ln) THEN SliceFrom(ln, col) ELSE <<>>
        cut == IF col < Len(ln) /\ ~keepRest
               THEN [ed EXCEPT !.lines[line + 1] = Slice(ln, 0, col)] ELSE ed
    IN IF col > 0 /\ col < Len(ln) /\ BracketPair(At(ln, col - 1), At(ln, col)) THEN
           LET indent == detectIndentation(LineAt(cut, line))
               innerIndent == IF flatInner THEN indent ELSE indent \o <<"\t">>
           IN adjustScroll(updateSyntaxHighlighting(
                  [cut EXCEPT !.lines = Splice(cut.lines, line + 1,
                                               <<innerIndent, indent \o newLine>>, line + 1),
                              !.lineTokens = Splice(cut.lineTokens, line + 1,
                                                    <<<<>>, <<>>>>, line + 1),
                              !.embeddedContexts = Splice(cut.embeddedContexts, line + 1,
                                                          <<<<>>, <<>>>>, line + 1),
                              !.cursorLine = line + 1,
                              !.cursorCol = Len(innerIndent),
                              !.dirty = TRUE], seed))
       ELSE
           LET smartIndent == Call("getSmartIndentation", <<cut, line>>)
               newLineContent == TrimSpace(newLine)
               dedent == /\ Len(newLineContent) > 0
                         /\ newLineContent[1] \in {"}", "]", ")"}
               dedentedIndent == Call("getDedentedIndentation", <<smartIndent>>)
           IN adjustScroll(updateSyntaxHighlighting(
                  [cut EXCEPT !.lines = Splice(cut.lines, line + 1,
                                   <<IF dedent THEN dedentedIndent \o newLine
                                     ELSE smartIndent \o newLine>>, line + 1),
                              !.lineTokens = Splice(cut.lineTokens, line + 1, <<<<>>>>,
                                                    line + 1),
                              !.embeddedContexts = Splice(cut.embeddedContexts, line + 1,
                                                          <<<<>>>>, line + 1),
                              !.cursorLine = line + 1,
                              !.cursorCol = IF dedent THEN Len(dedentedIndent)
                                            ELSE Len(smartIndent),
                              !.dirty = TRUE], seed))

\* an Enter that copies the text after the cursor to the new line and leaves
\* it on the old one
interactiveEnterKeepingRest(ed, ln, seed) == enterVariant(ed, ln, seed, TRUE, FALSE)

\* an Enter between a bracket pair that gives the line it opens the
\* indentation of the current line and no more
interactiveEnterFlatInner(ed, ln, seed) == enterVariant(ed, ln, seed, FALSE, TRUE)

\* KeyEnter of handleInteractive
interactiveEnter(ed, ln, seed) ==
    LET col == ed.cursorCol
        line == ed.cursorLine
        newLine == IF col < Len(ln) THEN SliceFrom(ln, col) ELSE <<>>
        cut == IF col < Len(ln) THEN [ed EXCEPT !.lines[line + 1] = Slice(ln, 0, col)]
               ELSE ed
    IN IF col > 0 /\ col < Len(ln) /\ BracketPair(At(ln, col - 1), At(ln, col)) THEN
           LET indent == detectIndentation(LineAt(cut, line))
               innerIndent == indent \o <<"\t">>
           IN adjustScroll(updateSyntaxHighlighting(
                  [cut EXCEPT !.lines = Splice(cut.lines, line + 1,
                                               <<innerIndent, indent \o newLine>>, line + 1),
                              !.lineTokens = Splice(cut.lineTokens, line + 1,
                                                    <<<<>>, <<>>>>, line + 1),
                              !.embeddedContexts = Splice(cut.embeddedContexts, line + 1,
                                                          <<<<>>, <<>>>>, line + 1),
                              !.cursorLine = line + 1,
                              !.cursorCol = Len(innerIndent),
                              !.dirty = TRUE], seed))
       ELSE
           LET smartIndent == Call("getSmartIndentation", <<cut, line>>)
               newLineContent == TrimSpace(newLine)
               dedent == /\ Len(newLineContent) > 0
                         /\ newLineContent[1] \in {"}", "]", ")"}
               dedentedIndent == Call("getDedentedIndentation", <<smartIndent>>)
           IN adjustScroll(updateSyntaxHighlighting(
                  [cut EXCEPT !.lines = Splice(cut.lines, line + 1,
                                   <<IF dedent THEN dedentedIndent \o newLine
                                     ELSE smartIndent \o newLine>>, line + 1),
                              !.lineTokens = Splice(cut.lineTokens, line + 1, <<<<>>>>,
                                                    line + 1),
                              !.embeddedContexts = Splice(cut.embeddedContexts, line + 1,
                                                          <<<<>>>>, line + 1),
                              !.cursorLine = line + 1,
                              !.cursorCol = IF dedent THEN Len(dedentedIndent)
                                            ELSE Len(smartIndent),
                              !.dirty = TRUE], seed))

\* a Backspace that joins two lines and keeps both of their context entries
interactiveBackspaceKeepingContext(ed, ln, seed) ==
    LET col == ed.cursorCol
        line == ed.cursorLine
    IN IF col > 0 THEN
           IF col > Len(ln) THEN Panicked(ed)
           ELSE Running(updateCursorVisualCol(updateLineTokens(
                   [ed EXCEPT !.lines[line + 1] = Splice(ln, col - 1, <<>>, col),
                              !.cursorCol = col - 1, !.dirty = TRUE], line, seed)))
       ELSE IF line > 0 THEN
           LET prev == LineAt(ed, line - 1)
           IN Running(adjustScroll(
                  [ed EXCEPT !.lines = Splice(ed.lines, line - 1, <<prev \o ln>>, line + 1),
                             !.lineTokens = Splice(ed.lineTokens, line, <<>>, line + 1),
                             !.cursorLine = line - 1,
                             !.cursorCol = Len(prev),
                             !.dirty = TRUE]))
       ELSE Running(ed)

\* a Backspace that joins two lines with the text of the lower one first
interactiveBackspaceReversed(ed, ln, seed) ==
    LET col == ed.cursorCol
        line == ed.cursorLine
    IN IF col > 0 THEN
           IF col > Len(ln) THEN Panicked(ed)
           ELSE Running(updateCursorVisualCol(updateLineTokens(
                   [ed EXCEPT !.lines[line + 1] = Splice(ln, col - 1, <<>>, col),
                              !.cursorCol = col - 1, !.dirty = TRUE], line, seed)))
       ELSE IF line > 0 THEN
           LET prev == LineAt(ed, line - 1)
           IN Running(adjustScroll(updateLineTokens(
                  [ed EXCEPT !.lines = Splice(ed.lines, line - 1, <<ln \o prev>>, line + 1),
                             !.lineTokens = Splice(ed.lineTokens, line, <<>>, line + 1),
                             !.embeddedContexts =
                                 Splice(ed.embeddedContexts, line, <<>>, line + 1),
                             !.cursorLine = line - 1,
                             !.cursorCol = Len(prev),
                             !.dirty = TRUE], line - 1, seed)))
       ELSE Running(ed)

\* KeyBackspace, KeyBackspace2 of handleInteractive
interactiveBackspace(ed, ln, seed) ==
    LET col == ed.cursorCol
        line == ed.cursorLine
    IN IF col > 0 THEN
           IF col < Len(ln) /\ BracketPair(At(ln, col - 1), At(ln, col)) THEN
               Running(updateCursorVisualCol(updateLineTokens(
                   [ed EXCEPT !.lines[line + 1] = Splice(ln, col - 1, <<>>, col + 1),
                              !.cursorCol = col - 1, !.dirty = TRUE], line, seed)))
           ELSE IF col > Len(ln) THEN Panicked(ed)
           ELSE Running(updateCursorVisualCol(updateLineTokens(
                   [ed EXCEPT !.lines[line + 1] = Splice(ln, col - 1, <<>>, col),
                              !.cursorCol = col - 1, !.dirty = TRUE], line, seed)))
       ELSE IF line > 0 THEN
           LET prev == LineAt(ed, line - 1)
           IN Running(adjustScroll(updateLineTokens(
                  [ed EXCEPT !.lines = Splice(ed.lines, line - 1, <<prev \o ln>>, line + 1),
                             !.lineTokens = Splice(ed.lineTokens, line, <<>>, line + 1),
                             !.embeddedContexts =
                                 Splice(ed.embeddedContexts, line, <<>>, line + 1),
                             !.cursorLine = line - 1,
                             !.cursorCol = Len(prev),
                             !.dirty = TRUE], line - 1, seed)))
       ELSE Running(ed)

\* a Delete that leaves the tokens of the line it shortens as they were
interactiveDeleteKeepingTokens(ed, ln, seed) ==
    LET col == ed.cursorCol
        line == ed.cursorLine
    IN IF col < Len(ln) THEN
           [ed EXCEPT !.lines[line + 1] = Splice(ln, col, <<>>, col + 1), !.dirty = TRUE]
       ELSE ed

\* KeyDelete of handleInteractive
interactiveDelete(ed, ln, seed) ==
    LET col == ed.cursorCol
        line == ed.cursorLine
    IN IF col < Len(ln) THEN
           updateLineTokens([ed EXCEPT !.lines[line + 1] = Splice(ln, col, <<>>, col + 1),
                                       !.dirty = TRUE], line, seed)
       ELSE IF line < Len(ed.lines) - 1 THEN
           updateLineTokens(
               [ed EXCEPT !.lines = Splice(ed.lines, line,
                                           <<ln \o LineAt(ed, line + 1)>>, line + 2),
                          !.lineTokens = Splice(ed.lineTokens, line + 1, <<>>, line + 2),
                          !.embeddedContexts =
                              Splice(ed.embeddedContexts, line + 1, <<>>, line + 2),
                          !.dirty = TRUE], line, seed)
       ELSE ed

handleInteractive(ed, key, seed) ==
    IF ~InRange(ed.cursorLine, Len(ed.lines)) THEN Panicked(ed)
    ELSE
    LET ln == LineAt(ed, ed.cursorLine)
        col == ed.cursorCol
        line == ed.cursorLine
        wordLeft == IF prevWordStartPanics(ln, col) THEN Panicked(ed)
                    ELSE Running([ed EXCEPT !.cursorCol = prevWordStart(ln, col)])
        wordRight == Running([ed EXCEPT !.cursorCol = nextWordEnd(ln, col)])
    IN CASE key.alt /\ key.key = "KeyLeft" -> wordLeft
         [] key.alt /\ key.key = "KeyRight" -> wordRight
         [] ~key.alt /\ key.key = "KeyLeft" ->
              IF key.ctrl THEN wordLeft
              ELSE IF col > 0
                   THEN Running(updateCursorVisualCol([ed EXCEPT !.cursorCol = col - 1]))
              ELSE IF line > 0
                   THEN Running(adjustScroll(updateCursorVisualCol(
                            [ed EXCEPT !.cursorLine = line - 1,
                                       !.cursorCol = Len(LineAt(ed, line - 1))])))
              ELSE Running(ed)
         [] ~key.alt /\ key.key = "KeyRight" ->
              IF key.ctrl THEN wordRight
              ELSE IF col < Len(ln)
                   THEN Running(updateCursorVisualCol([ed EXCEPT !.cursorCol = col + 1]))
              ELSE IF line < Len(ed.lines) - 1
                   THEN Running(adjustScroll(updateCursorVisualCol(
                            [ed EXCEPT !.cursorLine = line + 1, !.cursorCol = 0])))
              ELSE Running(ed)
         [] key.key = "KeyUp" ->
              IF line > 0
              THEN Running(adjustScroll(fixCursorCol([ed EXCEPT !.cursorLine = line - 1])))
              ELSE Running(ed)
         [] key.key = "KeyDown" ->
              IF line < Len(ed.lines) - 1
              THEN Running(adjustScroll(fixCursorCol([ed EXCEPT !.cursorLine = line + 1])))
              ELSE Running(ed)
         [] key.key = "KeyCtrlF" -> Running([ed EXCEPT !.mode = "Find", !.findBuf = <<>>])
         [] key.key = "KeyCtrlE" ->
              Running([ed EXCEPT !.mode = "CommandLine", !.commandBuf = <<>>])
         [] key.key = "KeyHome" -> Running([ed EXCEPT !.cursorCol = 0])
         [] key.key = "KeyEnd" -> Running([ed EXCEPT !.cursorCol = Len(ln)])
         [] key.key = "KeyPgUp" ->
              Running(adjustScroll(
                  [ed EXCEPT !.cursorLine = Max(line - (pageSize - 1), 0)]))
         [] key.key = "KeyPgDn" ->
              Running(adjustScroll(
                  [ed EXCEPT !.cursorLine =
                                 IF line + (pageSize - 1) >= Len(ed.lines)
                                 THEN Len(ed.lines) - 1 ELSE line + (pageSize - 1)]))
         [] key.key = "KeyEnter" -> Running(Call("interactiveEnter", <<ed, ln, seed>>))
         [] key.key \in {"KeyBackspace", "KeyBackspace2"} ->
              interactiveBackspace(ed, ln, seed)
         [] key.key = "KeyDelete" -> Running(interactiveDelete(ed, ln, seed))
         [] key.key = "KeyRune" ->
              LET r == handleRuneInput(ed, key.rune, seed)
              IN IF r.st = "running" THEN Running([r.ed EXCEPT !.dirty = TRUE]) ELSE r
         [] key.key = "KeyTab" ->
              IF col > Len(ln) THEN Panicked(ed)
              ELSE Running([updateCursorVisualCol(updateLineTokens(
                       [ed EXCEPT !.lines[line + 1] = Splice(ln, col, <<"\t">>, col),
                                  !.cursorCol = col + 1], line, seed))
                            EXCEPT !.dirty = TRUE])
         [] OTHER -> Running(ed)

(***************************************************************************)
(* Command line, prompts, reformat and find.  ioutil.WriteFile only        *)
(* writes: no run of the editor reads a file back after Load, so the bytes *)
(* on disk are not part of the state.                                      *)
(***************************************************************************)
\* strings.Fields
RECURSIVE Fields(_)
Fields(s) ==
    LET t == TrimLeft(s, SpaceChars)
        n == CHOOSE k \in 0..Len(t) :
                 /\ \A j \in 1..k : t[j] \notin SpaceChars
                 /\ (k = Len(t) \/ t[k + 1] \in SpaceChars)
    IN IF t = <<>> THEN <<>> ELSE <<SubSeq(t, 1, n)>> \o Fields(SubSeq(t, n + 1, Len(t)))

DigitSeq == <<"0","1","2","3","4","5","6","7","8","9">>
DigitValue(c) == (CHOOSE i \in 1..10 : DigitSeq[i] = c) - 1
RECURSIVE DecimalValue(_)
DecimalValue(s) ==
    IF s = <<>> THEN 0
    ELSE DecimalValue(SubSeq(s, 1, Len(s) - 1)) * 10 + DigitValue(s[Len(s)])
\* strconv.Atoi: [ok, n]
Atoi(s) ==
    LET body == IF s # <<>> /\ s[1] \in {"+", "-"} THEN Tail(s) ELSE s
    IN IF body = <<>> \/ \E i \in 1..Len(body) : body[i] \notin Digits
       THEN [ok |-> FALSE, n |-> 0]
       ELSE [ok |-> TRUE,
             n |-> IF s[1] = "-" THEN 0 - DecimalValue(body) ELSE DecimalValue(body)]

\* formatJSON on a text of braces and JSON white space: the one value such
\* a text can spell is the empty object, which MarshalIndent writes as {}
formatJSON(src) ==
    LET t == TrimLeft(TrimRight(src, SpaceChars), SpaceChars)
    IN IF /\ Len(t) >= 2 /\ t[1] = "{" /\ t[Len(t)] = "}"
          /\ \A i \in 2..(Len(t) - 1) : t[i] \in SpaceChars
       THEN [ok |-> TRUE, out |-> <<"{", "}">>]
       ELSE [ok |-> FALSE, out |-> <<>>]

\* strings.ReplaceAll(out, "\r\n", "\n")
RECURSIVE ReplaceCRLF(_)
ReplaceCRLF(s) ==
    IF s = <<>> THEN <<>>
    ELSE IF Len(s) >= 2 /\ s[1] = "\r" /\ s[2] = "\n" THEN <<"\n">> \o ReplaceCRLF(Tail(Tail(s)))
    ELSE <<s[1]>> \o ReplaceCRLF(Tail(s))

\* a formatBuffer that marks the buffer clean whether or not the formatter
\* accepted it
formatBufferMarkingClean(ed, seed) ==
    IF ed.format = "JSON" THEN
        LET r == formatJSON(JoinLines(ed.lines))
        IN IF r.ok
           THEN updateSyntaxHighlighting(
                    [ed EXCEPT !.lines = SplitLines(ReplaceCRLF(r.out)), !.dirty = FALSE],
                    seed)
           ELSE [ed EXCEPT !.dirty = FALSE]
    ELSE ed

\* formatBuffer for the formats of the model (a Go buffer is never offered)
formatBuffer(ed, seed) ==
    IF ed.format = "JSON" THEN
        LET r == formatJSON(JoinLines(ed.lines))
        IN IF r.ok
           THEN updateSyntaxHighlighting(
                    [ed EXCEPT !.lines = SplitLines(ReplaceCRLF(r.out)), !.dirty = FALSE],
                    seed)
           ELSE ed
    ELSE ed

promptSaveCommandLine(ed) ==
    [ed EXCEPT !.mode = "PromptSave", !.commandBuf = <<>>, !.savePending = TRUE]

promptQuitCommandLine(ed) == [ed EXCEPT !.mode = "PromptQuit", !.quitPending = TRUE]

setEncoding(ed, enc) ==
    [ed EXCEPT !.encoding =
        CASE enc \in {<<"u", "t", "f", "-", "8">>, <<"u", "t", "f", "8">>} -> "utf-8"
          [] enc = <<"a", "s", "c", "i", "i">> -> "ascii"
          [] enc \in {<<"u", "n", "i", "c", "o", "d", "e">>, <<"u", "t", "f", "-", "1", "6">>, <<"u", "t", "f", "1", "6">>} -> "unicode"
          [] enc \in {<<"i", "s", "o", "-", "8", "8", "5", "9", "-", "1">>, <<"l", "a", "t", "i", "n", "1">>} -> "iso-8859-1"
          [] enc \in {<<"w", "i", "n", "d", "o", "w", "s", "-", "1", "2", "5", "2">>, <<"c", "p", "1", "2", "5", "2">>} -> "windows-1252"
          [] OTHER -> "utf-8"]

\* the goto command
gotoCommand(ed, args) ==
    LET ln == Atoi(args[2])
        moved == IF ln.ok /\ ln.n >= 1 /\ ln.n <= Len(ed.lines)
                 THEN [ed EXCEPT !.cursorLine = ln.n - 1] ELSE ed
    IN IF Len(args) >= 3 THEN
           LET c == Atoi(args[3])
           IN IF c.ok /\ c.n >= 0 /\ ~InRange(moved.cursorLine, Len(moved.lines))
              THEN Panicked(moved)
              ELSE IF c.ok /\ c.n >= 0 /\ c.n <= Len(LineAt(moved, moved.cursorLine))
                   THEN Running(adjustScroll([moved EXCEPT !.cursorCol = c.n]))
              ELSE Running(adjustScroll(moved))
       ELSE Running(adjustScroll([moved EXCEPT !.cursorCol = 0]))

\* executeCommand.  The test command reads the output of go test, which
\* the model takes to report no diagnostic.
executeCommand(ed, seed) ==
    LET args == Fields(ed.commandBuf)
        cmd == IF args = <<>> THEN <<>> ELSE ToLower(args[1])
    IN IF args = <<>> THEN Running(ed)
       ELSE CASE cmd \in {<<"e", "x", "i", "t">>, <<"q", "u", "i", "t">>} ->
                    IF ed.dirty THEN Running(promptQuitCommandLine(ed)) ELSE Exited(ed)
              [] cmd = <<"s", "a", "v", "e">> ->
                    IF Len(args) > 1
                    THEN Running(updateSyntaxHighlighting(
                             detectFormat([ed EXCEPT !.filename = args[2],
                                                     !.dirty = FALSE]), seed))
                    ELSE IF ed.filename # <<>> THEN Running([ed EXCEPT !.dirty = FALSE])
                    ELSE Running(promptSaveCommandLine(ed))
              [] cmd = <<"g", "o", "t", "o">> ->
                    IF Len(args) >= 2 THEN Call("gotoCommand", <<ed, args>>) ELSE Running(ed)
              [] cmd \in {<<"s", "e", "t", "e", "n", "c">>, <<"e", "n", "c", "o", "d", "e">>} ->
                    IF Len(args) >= 2 THEN Running(setEncoding(ed, ToLower(args[2])))
                    ELSE Running(ed)
              [] cmd = <<"f", "o", "r", "m", "a", "t">> -> Running(formatBuffer(ed, seed))
              [] OTHER -> Running(ed)

handleCommandLine(ed, key, seed) ==
    CASE key.key = "KeyEsc" -> Running([ed EXCEPT !.mode = "Interactive"])
      [] key.key = "KeyEnter" ->
            LET r == Call("executeCommand", <<ed, seed>>)
                cleared == [r.ed EXCEPT !.commandBuf = <<>>]
            IN IF r.st # "running" THEN r
               ELSE IF ~cleared.savePending /\ ~cleared.quitPending
                    THEN Running([cleared EXCEPT !.mode = "Interactive"])
               ELSE Running(cleared)
      [] key.key \in {"KeyBackspace", "KeyBackspace2"} ->
            IF Len(ed.commandBuf) > 0
            THEN Running([ed EXCEPT !.commandBuf = SubSeq(@, 1, Len(@) - 1)])
            ELSE Running(ed)
      [] key.key = "KeyRune" -> Running([ed EXCEPT !.commandBuf = Append(@, key.rune)])
      [] OTHER -> Running(ed)

handlePromptSave(ed, key, seed) ==
    CASE key.key = "KeyEnter" ->
            LET filename == TrimSpace(ed.commandBuf)
                saved == IF filename # <<>>
                         THEN updateSyntaxHighlighting(
                                  detectFormat([ed EXCEPT !.filename = filename,
                                                          !.dirty = FALSE]), seed)
                         ELSE ed
            IN Running([saved EXCEPT !.commandBuf = <<>>, !.mode = "Interactive",
                                     !.savePending = FALSE])
      [] key.key \in {"KeyBackspace", "KeyBackspace2"} ->
            IF Len(ed.commandBuf) > 0
            THEN Running([ed EXCEPT !.commandBuf = SubSeq(@, 1, Len(@) - 1)])
            ELSE Running(ed)
      [] key.key = "KeyRune" -> Running([ed EXCEPT !.commandBuf = Append(@, key.rune)])
      [] OTHER -> Running(ed)

\* handlePromptQuit switches on key.Rune(), which is not a letter for a key
\* other than KeyRune
handlePromptQuit(ed, key) ==
    IF key.rune \in {"n", "N"} THEN Exited(ed)
    ELSE IF ed.filename # <<>> THEN Exited([ed EXCEPT !.dirty = FALSE])
    ELSE Running(promptSaveCommandLine(ed))

\* gotoFindResult; it indexes e.lines with the remembered line number
gotoFindResult(ed) ==
    IF Len(ed.findResults) = 0 THEN Running(ed)
    ELSE LET line == ed.findResults[ed.findIndex + 1]
         IN IF ~InRange(line, Len(ed.lines)) THEN Panicked(ed)
            ELSE Running(adjustScroll(
                     [ed EXCEPT !.cursorLine = line,
                                !.cursorCol = Index(LineAt(ed, line), ed.findBuf)]))

updateFindResults(ed) ==
    LET hits == SelectSeq([i \in 1..Len(ed.lines) |-> i - 1],
                          LAMBDA i : Contains(LineAt(ed, i), ed.findBuf))
    IN IF ed.findBuf = <<>> THEN Running([ed EXCEPT !.findResults = <<>>])
       ELSE IF Len(hits) > 0
            THEN gotoFindResult([ed EXCEPT !.findResults = hits, !.findIndex = 0])
       ELSE Running([ed EXCEPT !.findResults = hits])

handleFind(ed, key) ==
    CASE key.key = "KeyEsc" -> Running([ed EXCEPT !.mode = "Interactive"])
      [] key.key \in {"KeyBackspace", "KeyBackspace2"} ->
            IF Len(ed.findBuf) > 0
            THEN updateFindResults([ed EXCEPT !.findBuf = SubSeq(@, 1, Len(@) - 1)])
            ELSE Running(ed)
      [] key.key = "KeyRune" -> updateFindResults([ed EXCEPT !.findBuf = Append(@, key.rune)])
      [] key.key \in {"KeyDown", "KeyRight"} ->
            IF Len(ed.findResults) > 0
            THEN gotoFindResult([ed EXCEPT !.findIndex = (@ + 1) % Len(ed.findResults)])
            ELSE Running(ed)
      [] key.key \in {"KeyUp", "KeyLeft"} ->
            IF Len(ed.findResults) > 0
            THEN gotoFindResult(
                     [ed EXCEPT !.findIndex = (@ - 1 + Len(ed.findResults))
                                                  % Len(ed.findResults)])
            ELSE Running(ed)
      [] OTHER -> Running(ed)

(***************************************************************************)
(* The event loop of Run: Render, PollEvent, the handler of the mode.  A   *)
(* step of the model is one turn of the loop from PollEvent on: the        *)
(* handler of the polled key, then the Render that follows it.             *)
(***************************************************************************)
\* the runes typed into the buffer
TypedRunes == {"{", "}"}
\* the command lines typed after Ctrl-E, and the file names typed at the prompt
CmdScripts == {<<"f", "o", "r", "m", "a", "t">>, <<"s", "a", "v", "e", " ", "a", ".", "j", "s">>}
PromptScripts == {<<"a", ".", "j", "s", "o", "n">>}
\* most characters typed into the find prompt
MaxFind == 1
\* most characters a buffer of the typing sessions holds
MaxTyped == 4
\* most characters left in a file being streamed, and most lines asked of
\* loadMoreLines in one call
MaxLoadText == 5
MaxLoad == 2

IsPrefix(p, s) == Len(p) <= Len(s) /\ SubSeq(s, 1, Len(p)) = p

\* the runes the model types in the editor's present mode
RunesFor(ed) ==
    CASE ed.mode = "Interactive" -> TypedRunes
      [] ed.mode = "CommandLine" ->
            {s[Len(ed.commandBuf) + 1] :
                s \in {t \in CmdScripts : IsPrefix(ed.commandBuf, t)
                                          /\ Len(t) > Len(ed.commandBuf)}}
      [] ed.mode = "PromptSave" ->
            {s[Len(ed.commandBuf) + 1] :
                s \in {t \in PromptScripts : IsPrefix(ed.commandBuf, t)
                                             /\ Len(t) > Len(ed.commandBuf)}}
      [] ed.mode = "Find" -> IF Len(ed.findBuf) < MaxFind THEN TypedRunes ELSE {}
      [] ed.mode = "PromptQuit" -> {"y", "n"}

\* the keys pressed: Enter ends a command line or a file name only when it
\* is typed in full
Offered(ed, key) ==
    key.key = "KeyEnter" =>
        /\ ed.mode = "CommandLine" => ed.commandBuf \in CmdScripts
        /\ ed.mode = "PromptSave" => ed.commandBuf \in PromptScripts

\* the buffers the model explores: those within the bounds, and those an
\* edit of a larger file leaves no longer than it was
WithinBounds(from, ed) ==
    /\ Len(ed.lines) <= MaxLines
    /\ SumLens(ed.lines) <= Max(MaxChars, SumLens(from.lines))

\* the switch of Run on e.mode
Dispatch(ed, key, seed) ==
    CASE ed.mode = "Interactive" -> Call("handleInteractive", <<ed, key, seed>>)
      [] ed.mode = "CommandLine" -> handleCommandLine(ed, key, seed)
      [] ed.mode = "Find" -> handleFind(ed, key)
      [] ed.mode = "PromptSave" -> handlePromptSave(ed, key, seed)
      [] ed.mode = "PromptQuit" -> handlePromptQuit(ed, key)

\* one turn of the loop
Turn(ed, key, seed) ==
    LET r == Call("Dispatch", <<ed, key, seed>>)
    IN IF r.st = "running" THEN Call("Render", <<r.ed, seed>>) ELSE r

\* the map orders a turn may meet: those of the highlighter in use, and of
\* the one a save under a new name installs
TurnSeeds(ed, key) ==
    MapSeeds(ed.highlighter)
        \cup IF key.key = "KeyEnter" /\ ed.mode \in {"CommandLine", "PromptSave"}
             THEN UNION {MapSeeds(f) : f \in PatternFormats} ELSE {}

\* the turns of the loop on a key, one for each map order
Turns(ed, key) == {Turn(ed, key, seed) : seed \in TurnSeeds(ed, key)}

\* the ways Run reaches its loop on file f: Load, then the first Render
Starts(f) ==
    {Call("Render", <<Call("Load", <<f.arg, f.content, seed>>), seed>>) :
        seed \in UNION {MapSeeds(g) : g \in PatternFormats}}

\* updateSyntaxHighlighting where the ranges take the orders litOrd, restOrd
\* and, in the sub-highlighters, the order that starts at offset seed
updateSyntaxHighlightingIn(ed, litOrd, restOrd, seed) ==
    LET rs == [i \in 1..Len(ed.lines) |->
                 Call("tokenizeLineWithContext",
                      <<ed.highlighter, ed.lines[i], litOrd, restOrd, seed>>)]
    IN [ed EXCEPT !.lineTokens = [i \in 1..Len(ed.lines) |-> rs[i].tokens],
                  !.embeddedContexts = [i \in 1..Len(ed.lines) |-> rs[i].contexts]]

\* what updateSyntaxHighlighting may leave, over every order of its ranges
Retokenizations(ed) ==
    LET pats == Call("GrammarOf", <<ed.highlighter>>).patterns
    IN {updateSyntaxHighlightingIn(ed, litOrd, restOrd, seed) :
            litOrd \in LitOrders(pats), restOrd \in RestOrders(pats),
            seed \in UNION {MaxMapSeeds(ed.highlighter, ed.lines[i]) :
                                i \in 1..Len(ed.lines)}}

Call(fn, args) ==
    CASE fn = "FindAll" -> FindAll(args[1], args[2])
      [] fn = "GrammarOf" -> GrammarOf(args[1])
      [] fn = "Tokenize" -> Tokenize(args[1], args[2], args[3])
      [] fn = "Turns" -> Turns(args[1], args[2])
      [] fn = "Starts" -> Starts(args[1])
      [] fn = "Retokenizations" -> Retokenizations(args[1])
      [] fn = "tokenizeLineWithContext" ->
            tokenizeLineWithContext(args[1], args[2], args[3], args[4], args[5])
      [] fn = "Load" -> Load(args[1], args[2], args[3])
      [] fn = "Render" -> Render(args[1], args[2])
      [] fn = "loadMoreLines" -> loadMoreLines(args[1], args[2], args[3])
      [] fn = "Dispatch" -> Dispatch(args[1], args[2], args[3])
      [] fn = "handleInteractive" -> handleInteractive(args[1], args[2], args[3])
      [] fn = "interactiveEnter" -> interactiveEnter(args[1], args[2], args[3])
      [] fn = "getSmartIndentation" -> getSmartIndentation(args[1], args[2])
      [] fn = "getDedentedIndentation" -> getDedentedIndentation(args[1])
      [] fn = "executeCommand" -> executeCommand(args[1], args[2])
      [] fn = "gotoCommand" -> gotoCommand(args[1], args[2])

VARIABLES e, status
vars == <<e, status>>

\* one turn of the loop on the key polled
Step(key) ==
    /\ Offered(e, key)
    /\ \E r \in Call("Turns", <<e, key>>) :
          /\ WithinBounds(e, r.ed)
          /\ e' = r.ed
          /\ status' = r.st

PressLeft == status = "running" /\ Step(Key("KeyLeft"))
PressRight == status = "running" /\ Step(Key("KeyRight"))
PressCtrlLeft == status = "running" /\ Step(CtrlKey("KeyLeft"))
PressCtrlRight == status = "running" /\ Step(CtrlKey("KeyRight"))
PressAltLeft == status = "running" /\ Step(AltKey("KeyLeft"))
PressAltRight == status = "running" /\ Step(AltKey("KeyRight"))
PressUp == status = "running" /\ Step(Key("KeyUp"))
PressDown == status = "running" /\ Step(Key("KeyDown"))
PressHome == status = "running" /\ Step(Key("KeyHome"))
PressEnd == status = "running" /\ Step(Key("KeyEnd"))
PressPgUp == status = "running" /\ Step(Key("KeyPgUp"))
PressPgDn == status = "running" /\ Step(Key("KeyPgDn"))
PressEnter == status = "running" /\ Step(Key("KeyEnter"))
PressBackspace == status = "running" /\ Step(Key("KeyBackspace"))
PressDelete == status = "running" /\ Step(Key("KeyDelete"))
PressTab == status = "running" /\ Step(Key("KeyTab"))
PressCtrlF == status = "running" /\ Step(Key("KeyCtrlF"))
PressCtrlE == status = "running" /\ Step(Key("KeyCtrlE"))
PressEsc == status = "running" /\ Step(Key("KeyEsc"))
TypeRune == status = "running" /\ \E r \in RunesFor(e) : Step(RuneKey(r))

\* os.Args[1:] and the file ReadFile finds, for the editing sessions
EditFiles ==
    {[arg |-> <<>>, content |-> <<>>],
     [arg |-> <<<<"a", ".", "c", "s", "s">>>>, content |-> "unreadable"],
     [arg |-> <<<<"a", ".", "c", "s", "s">>>>, content |-> <<"\t", "}", "\n">>]}

Started(files) ==
    \E f \in files : \E r \in Call("Starts", <<f>>) : e = r.ed /\ status = r.st

(***************************************************************************)
(* SpecEdit: sessions of Interactive-mode editing keys.                    *)
(***************************************************************************)
InitEdit == Started(EditFiles)

NextEdit ==
    \/ PressLeft \/ PressRight \/ PressCtrlLeft \/ PressCtrlRight
    \/ PressAltLeft \/ PressAltRight \/ PressUp \/ PressDown
    \/ PressHome \/ PressEnd \/ PressPgUp \/ PressPgDn
    \/ PressEnter \/ PressBackspace \/ PressDelete \/ PressTab \/ TypeRune

SpecEdit == InitEdit /\ [][NextEdit]_vars

(***************************************************************************)
(* Spec: sessions that also use the command line, the prompts and find.    *)
(***************************************************************************)
Files ==
    {[arg |-> <<<<"a", ".", "j", "s", "o", "n">>>>, content |-> <<"{", "\n", "}">>]}

Init == Started(Files)

Next ==
    \/ PressDown \/ PressEnter \/ PressBackspace \/ PressDelete
    \/ PressTab \/ PressCtrlE \/ TypeRune

Spec == Init /\ [][Next]_vars

(***************************************************************************)
(* SpecPage: sessions on an HTML page with a style block, edited from the  *)
(* ends of its lines.                                                      *)
(***************************************************************************)
PageFiles ==
    {[arg |-> <<<<"a", ".", "h", "t", "m", "l">>>>, content |-> PageText]}

InitPage == Started(PageFiles)

NextPage ==
    \/ PressHome \/ PressEnd \/ PressUp \/ PressDown
    \/ PressEnter \/ PressBackspace \/ PressDelete

SpecPage == InitPage /\ [][NextPage]_vars

(***************************************************************************)
(* SpecTok: the tokenizer on the lines of sample files.  A file of one     *)
(* line is loaded, and its line is tokenized again under any order the     *)
(* ranges over the pattern maps may take.                                  *)
(***************************************************************************)
\* the sample texts, by the name of their file
TokTexts ==
    {<<<<"a", ".", "g", "o">>, <<"f", "u", "n", "c", " ", "f", "(", ")", "{", "}">>>>,
     <<<<"a", ".", "c", "s", "s">>, <<"a", ":", "b", ";", "c", "{", "d", ":", "1", "}">>>>,
     <<<<"a", ".", "j", "s">>, <<"v", "a", "r", " ", "x", "=", ">", "1", ";">>>>,
     <<<<"a", ".", "j", "s">>, <<"a", ".", "b", ";", "v", "a", "r", " ", "c">>>>,
     <<<<"a", ".", "h", "t", "m", "l">>, <<"<", "s", "t", "y", "l", "e", ">", "a", ":", "<", "/", "s", "t", "y", "l", "e", ">">>>>}

\* the sample files: every part of a sample text
TokFiles ==
    {[arg |-> <<t[1]>>, content |-> Slice(t[2], Min(i, Len(t[2])), Min(j, Len(t[2])))] :
        t \in TokTexts, i \in 0..MaxTokLen, j \in 0..MaxTokLen}

Retokenize ==
    /\ status = "running"
    /\ e' \in Call("Retokenizations", <<e>>)
    /\ UNCHANGED status

InitTok == Started(TokFiles)

NextTok == Retokenize

SpecTok == InitTok /\ [][NextTok]_vars

(***************************************************************************)
(* SpecType: sessions of typing in a buffer opened without a file, where   *)
(* an opening parenthesis and a double quote are typed, lines are split    *)
(* and joined, and the cursor is moved with Left and Right.                *)
(***************************************************************************)
\* one turn of the loop on the key polled, in a buffer of MaxTyped
\* characters at most
TypingStep(key) ==
    \E r \in Call("Turns", <<e, key>>) :
        /\ Len(r.ed.lines) <= MaxLines
        /\ SumLens(r.ed.lines) <= MaxTyped
        /\ e' = r.ed
        /\ status' = r.st

TypeOpener == status = "running" /\ TypingStep(RuneKey("("))
TypeQuote == status = "running" /\ TypingStep(RuneKey("\""))
SplitLine == status = "running" /\ TypingStep(Key("KeyEnter"))
EraseBack == status = "running" /\ TypingStep(Key("KeyBackspace"))
EraseForward == status = "running" /\ TypingStep(Key("KeyDelete"))
MoveLeft == status = "running" /\ TypingStep(Key("KeyLeft"))
MoveRight == status = "running" /\ TypingStep(Key("KeyRight"))

TypeFiles == {[arg |-> <<>>, content |-> <<>>]}

InitType == Started(TypeFiles)

NextType ==
    \/ TypeOpener \/ TypeQuote \/ SplitLine \/ EraseBack \/ EraseForward
    \/ MoveLeft \/ MoveRight

SpecType == InitType /\ [][NextType]_vars

(***************************************************************************)
(* SpecLoad: calls of loadMoreLines, from Render and with a number of      *)
(* lines of the caller's choice, on editors whose loader fields are those  *)
(* of a file being streamed, of one read to its end, and of the mixed      *)
(* settings the guard of loadMoreLines tells apart.                        *)
(***************************************************************************)
\* the texts the open file still holds
LoadTexts == UNION {[1..k -> {"{", "\n"}] : k \in 0..MaxLoadText}

Streamed ==
    {[NewEditor EXCEPT !.fileHandle = [open |-> o, text |-> IF o THEN t ELSE <<>>],
                       !.partialLoad = p] :
        o \in BOOLEAN, p \in BOOLEAN, t \in LoadTexts}

\* a call loadMoreLines(n)
LoadMore ==
    /\ status = "running"
    /\ \E n \in 0..MaxLoad : e' = Call("loadMoreLines", <<e, n, 0>>)
    /\ UNCHANGED status

\* a Render, which asks for LoadBatch lines when the load is partial
Redraw ==
    /\ status = "running"
    /\ \E r \in {Call("Render", <<e, 0>>)} : e' = r.ed /\ status' = r.st

InitLoad == e \in Streamed /\ status = "running"

NextLoad == LoadMore \/ Redraw

SpecLoad == InitLoad /\ [][NextLoad]_vars

(***************************************************************************)
(* SpecGoto: sessions that move the cursor with the goto command.  The     *)
(* style sheet is opened, the cursor is moved with End and Down, and goto  *)
(* commands are typed on the command line.                                 *)
(***************************************************************************)
\* the goto commands typed after Ctrl-E
GotoScripts == {<<"g", "o", "t", "o", " ", "2">>, <<"g", "o", "t", "o", " ", "9">>, <<"g", "o", "t", "o", " ", "1", " ", "1">>, <<"g", "o", "t", "o", " ", "2", " ", "9">>, <<"g", "o", "t", "o", " ", "9", " ", "2">>, <<"g", "o", "t", "o", " ", "2", " ", "x">>}

\* the characters that continue what the command line holds towards a
\* goto command
GotoRunes(ed) ==
    {s[Len(ed.commandBuf) + 1] :
        s \in {t \in GotoScripts : IsPrefix(ed.commandBuf, t) /\ Len(t) > Len(ed.commandBuf)}}

\* one turn of the loop on the key polled
GotoStep(key) ==
    \E r \in Call("Turns", <<e, key>>) :
        /\ e' = r.ed
        /\ status' = r.st

OpenCommandLine ==
    status = "running" /\ e.mode = "Interactive" /\ GotoStep(Key("KeyCtrlE"))
TypeCommand ==
    /\ status = "running" /\ e.mode = "CommandLine"
    /\ \E r \in GotoRunes(e) : GotoStep(RuneKey(r))
RunCommand ==
    /\ status = "running" /\ e.mode = "CommandLine" /\ e.commandBuf \in GotoScripts
    /\ GotoStep(Key("KeyEnter"))
GoToEnd == status = "running" /\ e.mode = "Interactive" /\ GotoStep(Key("KeyEnd"))
GoDown == status = "running" /\ e.mode = "Interactive" /\ GotoStep(Key("KeyDown"))

GotoFiles == {[arg |-> <<<<"a", ".", "c", "s", "s">>>>, content |-> <<"\t", "}", "\n", "}">>]}

InitGoto == Started(GotoFiles)

NextGoto == OpenCommandLine \/ TypeCommand \/ RunCommand \/ GoToEnd \/ GoDown

SpecGoto == InitGoto /\ [][NextGoto]_vars

(***************************************************************************)
(* SpecFind: sessions that search.  The style sheet is opened and edited,  *)
(* Find mode is entered with Ctrl-F and left with Esc, a search string is  *)
(* typed and the results are visited with Down and Up.                     *)
(***************************************************************************)
InitFind == Started(GotoFiles)

NextFind ==
    \/ PressCtrlF \/ PressEsc \/ TypeRune \/ PressDown \/ PressUp
    \/ PressBackspace

SpecFind == InitFind /\ [][NextFind]_vars

(***************************************************************************)
(* SpecSave: sessions that save, reformat and quit.  A buffer without a    *)
(* file or the file a.json is opened, braces are typed and lines split,    *)
(* the commands quit, save and format are run and the prompts answered.    *)
(* The field disk of e follows the text of the editor's file on disk: the  *)
(* text loaded, then the text of each write that succeeded.                *)
(***************************************************************************)
\* the commands typed after Ctrl-E, and the file name typed at the prompt
SaveScripts == {<<"q", "u", "i", "t">>, <<"s", "a", "v", "e">>, <<"f", "o", "r", "m", "a", "t">>}
NameScripts == {<<"a", ".", "j", "s", "o", "n">>}

\* the characters that continue what the command line holds
ScriptRunes(ed) ==
    LET scripts == IF ed.mode = "CommandLine" THEN SaveScripts ELSE NameScripts
    IN {s[Len(ed.commandBuf) + 1] :
           s \in {t \in scripts : IsPrefix(ed.commandBuf, t) /\ Len(t) > Len(ed.commandBuf)}}

\* whether the handler of the key writes the buffer to a file: the save
\* command with a file to write to, a name entered at the save prompt, an
\* answer other than n at the quit prompt of a named buffer
Writes(ed, key) ==
    LET args == Fields(ed.commandBuf)
    IN CASE ed.mode = "CommandLine" ->
                /\ key.key = "KeyEnter" /\ args # <<>> /\ ToLower(args[1]) = <<"s", "a", "v", "e">>
                /\ (Len(args) > 1 \/ ed.filename # <<>>)
         [] ed.mode = "PromptSave" ->
                key.key = "KeyEnter" /\ TrimSpace(ed.commandBuf) # <<>>
         [] ed.mode = "PromptQuit" -> key.rune \notin {"n", "N"} /\ ed.filename # <<>>
         [] OTHER -> FALSE

\* the text on disk after the handler: that of the buffer when the write
\* succeeded, the earlier text when there was no write or it failed
DiskAfter(ed, key) ==
    IF Writes(ed, key) THEN {JoinLines(ed.lines), ed.disk} ELSE {ed.disk}

\* one turn of the loop on the key polled, and what it leaves on disk
SaveStep(key) ==
    \E r \in Call("Turns", <<e, key>>) : \E d \in DiskAfter(e, key) :
        /\ e' = [r.ed EXCEPT !.disk = d]
        /\ status' = r.st

\* most characters typed into a buffer of these sessions
MaxSaved == 2

TypeBrace ==
    /\ status = "running" /\ e.mode = "Interactive" /\ SumLens(e.lines) < MaxSaved
    /\ SaveStep(RuneKey("{"))
BreakLine ==
    /\ status = "running" /\ e.mode = "Interactive" /\ Len(e.lines) < MaxLines
    /\ SaveStep(Key("KeyEnter"))
AskCommand == status = "running" /\ e.mode = "Interactive" /\ SaveStep(Key("KeyCtrlE"))
TypeScript ==
    /\ status = "running" /\ e.mode \in {"CommandLine", "PromptSave"}
    /\ \E r \in ScriptRunes(e) : SaveStep(RuneKey(r))
EnterCommand ==
    /\ status = "running" /\ e.mode = "CommandLine" /\ e.commandBuf \in SaveScripts
    /\ SaveStep(Key("KeyEnter"))
EnterName ==
    /\ status = "running" /\ e.mode = "PromptSave" /\ e.commandBuf \in NameScripts
    /\ SaveStep(Key("KeyEnter"))
AnswerQuit ==
    /\ status = "running" /\ e.mode = "PromptQuit"
    /\ \E r \in {"y", "n"} : SaveStep(RuneKey(r))

SaveFiles ==
    {[arg |-> <<>>, content |-> <<>>],
     [arg |-> <<<<"a", ".", "j", "s", "o", "n">>>>, content |-> <<"{", "\n", "}">>]}

\* Run up to its loop, with the text of the file read
InitSave ==
    \E f \in SaveFiles : \E r \in Call("Starts", <<f>>) :
        /\ e = [disk |-> f.content] @@ r.ed
        /\ status = r.st

NextSave ==
    \/ TypeBrace \/ BreakLine \/ AskCommand \/ TypeScript
    \/ EnterCommand \/ EnterName \/ AnswerQuit

SpecSave == InitSave /\ [][NextSave]_vars

(***************************************************************************)
(* SpecCol: the conversions between byte offsets and screen columns, on    *)
(* buffers of one line of tabs and letters.  The cursor is put at the byte *)
(* offset byteColForVisualCol gives for a column.                          *)
(***************************************************************************)
\* longest line, and greatest column asked for
MaxColLen == 4
MaxColumn == 17

ColLines == UNION {[1..k -> {"\t", "x"}] : k \in 0..MaxColLen}

\* the cursor is placed at the byte offset of a screen column
PlaceAtColumn ==
    /\ status = "running"
    /\ \E target \in 0..MaxColumn :
          e' = updateCursorVisualCol(
                   [e EXCEPT !.cursorCol = byteColForVisualCol(LineAt(e, 0), target)])
    /\ UNCHANGED status

InitCol ==
    /\ \E l \in ColLines : e = [NewEditor EXCEPT !.lines = <<l>>]
    /\ status = "running"

NextCol == PlaceAtColumn

SpecCol == InitCol /\ [][NextCol]_vars

(***************************************************************************)
(* SpecVariant: the construction of a syntax highlighter in the source     *)
(* variant part_000, where setupEmbeddedHighlighters calls                 *)
(* NewSyntaxHighlighter for each embedded language.  e holds the format of *)
(* the editor, the stack of the calls of NewSyntaxHighlighter under way    *)
(* and whether the highlighter was returned.                               *)
(***************************************************************************)
\* the file formats of part_000, and those with a case in the switch of
\* NewSyntaxHighlighter
VariantFormats ==
    {"PlainText", "Go", "JavaScript", "Python", "HTML", "CSS", "JSON", "Markdown",
     "Shell", "C", "CPP", "Rust", "Java", "PHP"}
VariantSetupFormats ==
    {"Go", "JavaScript", "Python", "HTML", "CSS", "Java", "Rust", "C", "CPP", "PHP",
     "PlainText"}

\* h.format after the switch: a format without a case becomes PlainText
VariantHighlighterFormat(format) ==
    IF format \in VariantSetupFormats THEN format ELSE "PlainText"

\* the formats setupEmbeddedHighlighters calls NewSyntaxHighlighter for, in
\* the order of its statements
VariantEmbedded(hformat) ==
    CASE hformat = "HTML" -> <<"JavaScript", "CSS", "PHP">>
      [] hformat = "PHP" -> <<"HTML", "JavaScript", "CSS">>
      [] hformat = "Shell" -> <<"HTML", "JavaScript", "Python">>
      [] OTHER -> <<>>

\* the frame of a call NewSyntaxHighlighter(format): the format of h and
\* the number of embedded highlighters constructed so far
VariantFrame(format) == [format |-> VariantHighlighterFormat(format), made |-> 0]

\* the depth of calls the stack has room for
MaxStack == 36

\* the call on top of the stack has an embedded highlighter left to make
MakesEmbedded ==
    /\ status = "running" /\ e.stack # <<>>
    /\ e.stack[Len(e.stack)].made < Len(VariantEmbedded(e.stack[Len(e.stack)].format))

\* setupEmbeddedHighlighters calls NewSyntaxHighlighter
CallNewSyntaxHighlighter ==
    /\ MakesEmbedded /\ Len(e.stack) < MaxStack
    /\ LET top == e.stack[Len(e.stack)]
       IN e' = [e EXCEPT !.stack =
                   Append(@, VariantFrame(VariantEmbedded(top.format)[top.made + 1]))]
    /\ UNCHANGED status

\* the call finds no room on the stack
StackOverflow ==
    /\ MakesEmbedded /\ Len(e.stack) = MaxStack
    /\ status' = "panicked"
    /\ UNCHANGED e

\* NewSyntaxHighlighter returns h, to setupEmbeddedHighlighters of its
\* caller or to detectFormat
ReturnNewSyntaxHighlighter ==
    /\ status = "running" /\ e.stack # <<>> /\ ~MakesEmbedded
    /\ LET rest == SubSeq(e.stack, 1, Len(e.stack) - 1)
       IN e' = IF rest = <<>> THEN [e EXCEPT !.stack = <<>>, !.built = TRUE]
               ELSE [e EXCEPT !.stack = [rest EXCEPT ![Len(rest)].made = @ + 1]]
    /\ UNCHANGED status

InitVariant ==
    /\ \E f \in VariantFormats :
          e = [format |-> f, stack |-> <<VariantFrame(f)>>, built |-> FALSE]
    /\ status = "running"

NextVariant == CallNewSyntaxHighlighter \/ StackOverflow \/ ReturnNewSyntaxHighlighter

\* a call under way goes on
SpecVariant == InitVariant /\ [][NextVariant]_vars /\ WF_vars(NextVariant)

(***************************************************************************)
(* The properties checked.                                                 *)
(***************************************************************************)
\* 0 <= cursorLine < len(lines) and 0 <= cursorCol <= len(lines[cursorLine])
CursorInBounds(ed) ==
    /\ InRange(ed.cursorLine, Len(ed.lines))
    /\ ed.cursorCol >= 0
    /\ ed.cursorCol <= Len(LineAt(ed, ed.cursorLine))

\* C1: after every operation on the buffer (rune, Tab, Backspace, Delete,
\* Enter, reformat, save under a new name) lines, lineTokens and
\* embeddedContexts have the same length
C1_ParallelArrays ==
    /\ Len(e.lines) = Len(e.lineTokens)
    /\ Len(e.lines) = Len(e.embeddedContexts)

\* a buffer of three lines, edited after it was saved as a JavaScript file
C1_Edited == e.filename = <<"a", ".", "j", "s">> /\ e.dirty /\ Len(e.lines) = 3 /\ status = "running"

\* C2: after any sequence of Interactive-mode keys the cursor is inside the
\* buffer
C2_CursorInBounds == CursorInBounds(e)

\* the format command is on the command line of a JSON buffer
FormatTyped == status = "running" /\ e.mode = "CommandLine" /\ e.commandBuf = <<"f", "o", "r", "m", "a", "t">>
                   /\ e.format = "JSON"

\* C3: after a format command whose formatter succeeds, the lines are the
\* split of the new text and the cursor is inside the new buffer
C3_CursorAfterFormat ==
    [][(FormatTyped /\ formatJSON(JoinLines(e.lines)).ok /\ PressEnter)
          => /\ e'.lines = SplitLines(formatJSON(JoinLines(e.lines)).out)
             /\ CursorInBounds(e')]_vars

C5_SpansInsideLine ==
    \A i \in 1..Len(e.lines) :
        /\ \A k \in 1..Len(e.lineTokens[i]) :
              /\ 0 <= e.lineTokens[i][k].Start
              /\ e.lineTokens[i][k].Start <= e.lineTokens[i][k].End
              /\ e.lineTokens[i][k].End <= Len(e.lines[i])
        /\ \A k \in 1..Len(e.embeddedContexts[i]) :
              /\ 0 <= e.embeddedContexts[i][k].Start
              /\ e.embeddedContexts[i][k].Start <= e.embeddedContexts[i][k].End
              /\ e.embeddedContexts[i][k].End <= Len(e.lines[i])

\* an edited page whose style block, moved one column left by the deletion
\* of the character before it, has its context and the tokens of its content
C5_ShiftedContext ==
    /\ e.dirty
    /\ \E i \in 1..Len(e.lines) :
          /\ e.lines[i] = SliceFrom(PageText, 1)
          /\ Len(e.embeddedContexts[i]) = 1
          /\ e.embeddedContexts[i][1].Start = 7
          /\ \E k \in 1..Len(e.lineTokens[i]) : e.lineTokens[i][k].Context = "CSS"

\* C6: two tokenizations of the same line under the same grammar return the
\* same token list, whatever order the pattern table is ranged over in
C6_Deterministic ==
    [][(e'.lines = e.lines /\ e'.highlighter = e.highlighter)
          => e'.lineTokens = e.lineTokens]_vars

\* C7: any two tokens of a line have disjoint spans
C7_DisjointSpans ==
    \A i \in 1..Len(e.lineTokens) :
        \A a, b \in 1..Len(e.lineTokens[i]) :
            a < b => \/ e.lineTokens[i][a].End <= e.lineTokens[i][b].Start
                     \/ e.lineTokens[i][b].End <= e.lineTokens[i][a].Start

\* the part of the cursor's line before and after the cursor
BeforeCursor(ed) == Slice(LineAt(ed, ed.cursorLine), 0, ed.cursorCol)
AfterCursor(ed) == SliceFrom(LineAt(ed, ed.cursorLine), ed.cursorCol)
Closers == {"}", "]", ")"}
Openers == {"{", "[", "("}
StartsWithCloser(s) == TrimSpace(s) # <<>> /\ TrimSpace(s)[1] \in Closers
EndsWithOpener(s) == TrimSpace(s) # <<>> /\ TrimSpace(s)[Len(TrimSpace(s))] \in Openers

\* Enter is pressed in the buffer, away from a bracket pair and with no
\* closing bracket first in what follows the cursor
OrdinaryEnter ==
    /\ status = "running" /\ e.mode = "Interactive" /\ CursorInBounds(e)
    /\ ~(e.cursorCol > 0 /\ AfterCursor(e) # <<>>
         /\ BracketPair(BeforeCursor(e)[e.cursorCol], AfterCursor(e)[1]))
    /\ ~StartsWithCloser(AfterCursor(e))
    /\ PressEnter /\ status' = "running"

\* C8: an ordinary Enter gives the new line the leading whitespace of the
\* line it split, and one tab more when that line ends with an opening
\* bracket
C8_EnterIndent ==
    [][OrdinaryEnter
          => LineAt(e', e.cursorLine + 1) =
                 detectIndentation(BeforeCursor(e))
                     \o (IF EndsWithOpener(BeforeCursor(e)) THEN <<"\t">> ELSE <<>>)
                     \o AfterCursor(e)]_vars

\* a closing brace is typed after the indentation of a line, with only
\* whitespace before the cursor and another character, or none, after it
CloserAfterIndent ==
    /\ status = "running" /\ e.mode = "Interactive" /\ CursorInBounds(e)
    /\ e.cursorCol > 0 /\ TrimSpace(BeforeCursor(e)) = <<>>
    /\ (AfterCursor(e) = <<>> \/ AfterCursor(e)[1] \notin SpaceChars \cup {"}"})
    /\ Step(RuneKey("}")) /\ status' = "running"

\* C9: a closing bracket typed as the first non-blank character of an
\* indented line takes one indent unit off the line: the line becomes the
\* dedented indentation, the bracket, the rest of the line
C9_CloserDedents ==
    [][CloserAfterIndent
          => LineAt(e', e.cursorLine) =
                 getDedentedIndentation(BeforeCursor(e)) \o <<"}">> \o AfterCursor(e)]_vars

\* a closing brace is typed with a closing brace right after the cursor
CloserBeforeCloser ==
    /\ status = "running" /\ e.mode = "Interactive" /\ CursorInBounds(e)
    /\ AfterCursor(e) # <<>> /\ AfterCursor(e)[1] = "}"
    /\ Step(RuneKey("}")) /\ status' = "running"

\* C10: a closing delimiter typed when the same character follows the
\* cursor leaves the text as it is and moves the cursor one column on
C10_SkipOver ==
    [][CloserBeforeCloser
          => /\ e'.lines = e.lines
             /\ e'.cursorLine = e.cursorLine
             /\ e'.cursorCol = e.cursorCol + 1]_vars

\* a key is typed in the buffer with the cursor inside it
TypingInBuffer == status = "running" /\ e.mode = "Interactive" /\ CursorInBounds(e)

\* the quote characters before the cursor on its line
QuotesBefore(ed, q) == Cardinality({i \in 1..ed.cursorCol : BeforeCursor(ed)[i] = q})

\* the buffer with the cursor's line replaced by the line s
WithCursorLine(ed, s) == [ed.lines EXCEPT ![ed.cursorLine + 1] = s]

\* a double quote is typed with a double quote right after the cursor
QuoteBeforeQuote ==
    /\ TypingInBuffer
    /\ AfterCursor(e) # <<>> /\ AfterCursor(e)[1] = "\""
    /\ TypeQuote /\ status' = "running"

\* C11: a quote character typed when the same quote follows the cursor
\* leaves the text as it is and moves the cursor past that quote
C11_QuoteSkipOver ==
    [][QuoteBeforeQuote
          => /\ e'.lines = e.lines
             /\ e'.cursorLine = e.cursorLine
             /\ e'.cursorCol = e.cursorCol + 1]_vars

\* C12: with the cursor inside the buffer, an opening parenthesis typed
\* inserts it and its closer at the cursor and leaves the cursor between
\* them; a double quote typed does the same exactly when the number of
\* double quotes before the cursor on the line is even, and is inserted
\* alone otherwise
C12_AutoClose ==
    [][/\ (TypingInBuffer /\ TypeOpener /\ status' = "running")
              => /\ e'.lines = WithCursorLine(e, BeforeCursor(e) \o <<"(", ")">>
                                                    \o AfterCursor(e))
                 /\ e'.cursorLine = e.cursorLine
                 /\ e'.cursorCol = e.cursorCol + 1
       /\ (TypingInBuffer /\ TypeQuote /\ status' = "running")
              => /\ e'.lines =
                        WithCursorLine(e, BeforeCursor(e)
                            \o (IF QuotesBefore(e, "\"") % 2 = 0 THEN <<"\"", "\"">>
                                ELSE <<"\"">>)
                            \o AfterCursor(e))
                 /\ e'.cursorLine = e.cursorLine
                 /\ e'.cursorCol = e.cursorCol + 1]_vars

\* a pair of double quotes was typed and then, between them, a quote that
\* was inserted alone
C12_PairThenSingle ==
    /\ status = "running"
    /\ e.lines = <<<<"\"", "\"", "\"">>>>
    /\ e.cursorCol = 2

\* the cursor is directly between a bracket and its closer
BetweenPair(ed) ==
    /\ ed.cursorCol > 0 /\ AfterCursor(ed) # <<>>
    /\ BracketPair(BeforeCursor(ed)[ed.cursorCol], AfterCursor(ed)[1])

\* the indentation an ordinary Enter gives the new line: the smart
\* indentation, dedented when a closing bracket is first in what follows
\* the cursor
EnterIndent(ed) ==
    IF StartsWithCloser(AfterCursor(ed))
    THEN getDedentedIndentation(getSmartIndentation(ed, ed.cursorLine))
    ELSE getSmartIndentation(ed, ed.cursorLine)

\* C13: an ordinary Enter at (l, c), the cursor inside the buffer, cuts
\* line l to its first c characters, inserts after it the one line indent +
\* rest of line l, adds one token entry and one context entry, leaves the
\* other lines as they were and moves the cursor to (l+1, len(indent))
C13_EnterSplits ==
    [][(TypingInBuffer /\ ~BetweenPair(e) /\ SplitLine /\ status' = "running")
          => /\ e'.lines = Splice(e.lines, e.cursorLine,
                                  <<BeforeCursor(e), EnterIndent(e) \o AfterCursor(e)>>,
                                  e.cursorLine + 1)
             /\ Len(e'.lineTokens) = Len(e.lineTokens) + 1
             /\ Len(e'.embeddedContexts) = Len(e.embeddedContexts) + 1
             /\ e'.cursorLine = e.cursorLine + 1
             /\ e'.cursorCol = Len(EnterIndent(e))]_vars

\* a line was split before its closing parenthesis, under a line that ends
\* with the opening one: the new line lost the tab of the smart indentation
C13_SplitBeforeCloser ==
    /\ status = "running"
    /\ e.lines = <<<<"(">>, <<>>, <<")">>>>
    /\ e.cursorLine = 2 /\ e.cursorCol = 0

\* C14: Enter with the cursor directly between a bracket pair inserts two
\* lines after the current one, the current line's indentation plus a tab
\* and the current line's indentation followed by what followed the cursor;
\* the current line keeps the text up to the opener and the cursor is at
\* the end of the first new line
C14_PairEnter ==
    [][(TypingInBuffer /\ BetweenPair(e) /\ SplitLine /\ status' = "running")
          => LET indent == detectIndentation(LineAt(e, e.cursorLine))
             IN /\ e'.lines = Splice(e.lines, e.cursorLine,
                                     <<BeforeCursor(e), indent \o <<"\t">>,
                                       indent \o AfterCursor(e)>>,
                                     e.cursorLine + 1)
                /\ e'.cursorLine = e.cursorLine + 1
                /\ e'.cursorCol = Len(indent) + 1]_vars

\* Enter was pressed between the parentheses of a pair just typed
C14_PairOpened ==
    /\ status = "running"
    /\ e.lines = <<<<"(">>, <<"\t">>, <<")">>>>
    /\ e.cursorLine = 1 /\ e.cursorCol = 1

\* Backspace at column 0 of a line below the first, and Delete at the end
\* of a line above the last
JoinBack ==
    /\ TypingInBuffer /\ e.cursorCol = 0 /\ e.cursorLine > 0
    /\ PressBackspace /\ status' = "running"
JoinForward ==
    /\ TypingInBuffer /\ e.cursorCol = Len(LineAt(e, e.cursorLine))
    /\ e.cursorLine < Len(e.lines) - 1
    /\ PressDelete /\ status' = "running"

\* lines a and a+1 became one line, their concatenation, and every other
\* line kept its text, its tokens and its contexts
JoinedAt(a) ==
    /\ e'.lines = Splice(e.lines, a, <<LineAt(e, a) \o LineAt(e, a + 1)>>, a + 2)
    /\ Len(e'.lineTokens) = Len(e.lineTokens) - 1
    /\ Len(e'.embeddedContexts) = Len(e.embeddedContexts) - 1
    /\ \A i \in 1..Len(e'.lineTokens) :
          i # a + 1 =>
              /\ e'.lineTokens[i] = e.lineTokens[IF i <= a THEN i ELSE i + 1]
              /\ e'.embeddedContexts[i] = e.embeddedContexts[IF i <= a THEN i ELSE i + 1]

\* C15: a join, with the cursor inside the buffer, replaces the two lines
\* by their concatenation, removes one line with its token and context
\* entries, leaves the other lines and entries as they were, and puts the
\* cursor at the join point: for Backspace on line l at (l-1, former length
\* of line l-1), for Delete where it was
C15_Join ==
    [][/\ JoinBack => /\ JoinedAt(e.cursorLine - 1)
                      /\ e'.cursorLine = e.cursorLine - 1
                      /\ e'.cursorCol = Len(LineAt(e, e.cursorLine - 1))
       /\ JoinForward => /\ JoinedAt(e.cursorLine)
                         /\ e'.cursorLine = e.cursorLine
                         /\ e'.cursorCol = e.cursorCol]_vars

\* the two lines of the style sheet loaded were joined into one
C15_SheetJoined ==
    /\ status = "running" /\ e.dirty /\ e.format = "CSS"
    /\ e.lines = <<<<"\t", "}">>>>
    /\ e.cursorLine = 0 /\ e.cursorCol = 2

\* a token entry no call of the tokenizer leaves
Stale == <<Token("Stale", 0, 0, "PlainText")>>

\* the editor with every token entry marked
Marked(ed) == [ed EXCEPT !.lineTokens = [i \in 1..Len(ed.lineTokens) |-> Stale]]

\* the keystrokes that edit
EditKeys ==
    {Key("KeyEnter"), Key("KeyBackspace"), Key("KeyDelete"), Key("KeyTab"), RuneKey("}")}

\* the lines whose text a keystroke changes: the cursor's line and, in a
\* join, the line joined to it
TouchedBy(ed, key) ==
    {ed.cursorLine}
        \cup (IF key.key = "KeyBackspace" /\ ed.cursorCol = 0 THEN {ed.cursorLine - 1} ELSE {})
        \cup (IF key.key = "KeyDelete" /\ ed.cursorCol = Len(LineAt(ed, ed.cursorLine))
              THEN {ed.cursorLine + 1} ELSE {})

\* the lines a keystroke leaves alone keep the entries they had
KeepsOtherEntries(key) ==
    \A seed \in MapSeeds(e.highlighter) :
        LET r == Call("Dispatch", <<Marked(e), key, seed>>)
            grow == Len(r.ed.lines) - Len(e.lines)
        IN r.st = "running" =>
              \A j \in 0..(Len(e.lines) - 1) :
                  j \notin TouchedBy(e, key) =>
                      r.ed.lineTokens[(IF j < e.cursorLine THEN j ELSE j + grow) + 1] = Stale

\* C16: a keystroke that edits runs the tokenizer only on the lines whose
\* text it changed or created: the token entry of every other line is the
\* one that line had before the keystroke
C16_OnlyTouchedLines ==
    TypingInBuffer => \A key \in EditKeys : KeepsOtherEntries(key)

\* the entries of every line are what the tokenizer makes of the line's
\* text under the grammar in use
EntriesCurrent(ed) ==
    /\ Len(ed.lineTokens) = Len(ed.lines)
    /\ Len(ed.embeddedContexts) = Len(ed.lines)
    /\ \A i \in 1..Len(ed.lines) :
          \E seed \in MapSeeds(ed.highlighter) :
              LET r == Call("Tokenize", <<ed.highlighter, ed.lines[i], seed>>)
              IN ed.lineTokens[i] = r.tokens /\ ed.embeddedContexts[i] = r.contexts

FileFormats == SetupFormats \cup {"JSON", "Markdown", "Shell"}

\* the sub-highlighters a highlighter of format f registers
SubHighlighters(f) == {createBasicSyntaxHighlighter(g) : g \in setupEmbeddedHighlighters(f)}

\* C18: every sub-highlighter a highlighter registers has an empty table of
\* embedded highlighters, so a token is the host grammar's or that of a
\* sub-highlighter the host registers: nesting is one level deep
C18_SubHighlightersFlat ==
    /\ \A f \in FileFormats : \A sub \in SubHighlighters(f) : sub.embeddedHighlighters = {}
    /\ status = "running" =>
          /\ \A sub \in SubHighlighters(e.highlighter) : sub.embeddedHighlighters = {}
          /\ \A i \in 1..Len(e.lineTokens) : \A k \in 1..Len(e.lineTokens[i]) :
                e.lineTokens[i][k].Context
                    \in {e.highlighter} \cup setupEmbeddedHighlighters(e.highlighter)

\* the page between two new lines, its style block tokenized by the CSS
\* sub-highlighter
C18_PageWithStyle ==
    /\ status = "running" /\ e.highlighter = "HTML" /\ e.dirty
    /\ e.lines = <<<<>>, PageText, <<>>>>
    /\ \E k \in 1..Len(e.lineTokens[2]) : e.lineTokens[2][k].Context = "CSS"

\* what the sub-highlighter of a format yields for a text, its pattern map
\* ranged from offset seed
SubTokens(format, text, seed) ==
    LET sub == createBasicSyntaxHighlighter(format).format
        pats == Call("GrammarOf", <<sub>>).patterns
        ord == [i \in 1..Len(pats) |-> ((i + seed - 1) % Len(pats)) + 1]
    IN tokenizeLine(sub, text, LitOrder(pats, ord), RestOrder(pats, ord))

\* the tokens of line i hold those of the context ctx, moved by its start
HoldsShifted(i, ctx) ==
    \E seed \in 0..(MaxSeeds - 1) :
        LET toks == SubTokens(ctx.Format, Slice(e.lines[i], ctx.Start, ctx.End), seed)
        IN \A k \in 1..Len(toks) :
              /\ ctx.Start <= toks[k].Start + ctx.Start
              /\ toks[k].End + ctx.Start <= ctx.End
              /\ \E m \in 1..Len(e.lineTokens[i]) :
                    e.lineTokens[i][m] = Token(toks[k].Type, toks[k].Start + ctx.Start,
                                               toks[k].End + ctx.Start, ctx.Format)

\* C19: for every embedded context of a line whose grammar the highlighter
\* has a sub-highlighter for, each token the sub-highlighter yields for the
\* context's substring is among the line's tokens with Start and End moved
\* by the context's Start, inside [ctx.Start, ctx.End] and tagged with the
\* context's grammar
C19_EmbeddedShifted ==
    status = "running" =>
        \A i \in 1..Len(e.lines) : \A c \in 1..Len(e.embeddedContexts[i]) :
            e.embeddedContexts[i][c].Format \in setupEmbeddedHighlighters(e.highlighter)
                => HoldsShifted(i, e.embeddedContexts[i][c])

\* the page pushed down a line, the brace of its style block a CSS token at
\* the offset it has in the line
C19_StyleTokenShifted ==
    /\ status = "running" /\ e.dirty
    /\ Len(e.lines) = 2 /\ e.lines[2] = PageText
    /\ \E c \in 1..Len(e.embeddedContexts[2]) :
          /\ e.embeddedContexts[2][c].Start = 8
          /\ SubTokens("CSS", Slice(PageText, 8, e.embeddedContexts[2][c].End), 0) # <<>>
    /\ \E k \in 1..Len(e.lineTokens[2]) :
          e.lineTokens[2][k].Context = "CSS" /\ e.lineTokens[2][k].Start = 8

\* the source is at its end: no file is open, or the load is not partial
EndOfSource(ed) == ~ed.fileHandle.open \/ ~ed.partialLoad

\* what a load may add to or change
LoaderView(ed) ==
    <<ed.lines, ed.lineTokens, ed.embeddedContexts, ed.cursorLine, ed.cursorCol,
      ed.fileHandle, ed.partialLoad, ed.fileOffsetLines>>

\* C20: once the end of the source is reached, every call of loadMoreLines
\* leaves the lines, the token and context entries, the cursor and the
\* loader's flags as they were
C20_LoadAtEndIsNoOp ==
    [][(EndOfSource(e) /\ LoadMore) => LoaderView(e') = LoaderView(e)]_vars

\* a stream was read to its end and closed, its lines in the buffer
C20_StreamExhausted ==
    /\ status = "running"
    /\ ~e.fileHandle.open /\ ~e.partialLoad
    /\ Len(e.lines) > 1 /\ e.fileOffsetLines = Len(e.lines)

IsLinePrefix(s, t) == Len(s) <= Len(t) /\ SubSeq(t, 1, Len(s)) = s

\* C26: a call loadMoreLines(n) appends between 0 and n lines at the end
\* of the buffer: the lines the buffer held stay where they were, as they
\* were, and the cursor does not move
C26_LoadAppends ==
    [][\A n \in 0..MaxLoad :
          (LoadMore /\ e' = Call("loadMoreLines", <<e, n, 0>>))
              => /\ IsLinePrefix(e.lines, e'.lines)
                 /\ Len(e'.lines) <= Len(e.lines) + n
                 /\ e'.cursorLine = e.cursorLine
                 /\ e'.cursorCol = e.cursorCol]_vars

\* two lines were read from a stream that holds more
C26_TwoLinesAppended ==
    /\ status = "running"
    /\ e.fileHandle.open /\ e.partialLoad
    /\ Len(e.lines) = 3 /\ e.fileOffsetLines = 3
    /\ e.lines[2] # <<>>

\* C22: in every state the editor reaches the buffer has a line at least,
\* no line holds a line terminator, and the text the buffer is saved as,
\* its lines joined by "\n", splits on "\n" into the lines of the buffer
C22_SplitJoinRoundTrip ==
    status = "running" =>
        /\ Len(e.lines) >= 1
        /\ \A i \in 1..Len(e.lines) : \A k \in 1..Len(e.lines[i]) : e.lines[i][k] # "\n"
        /\ SplitLines(JoinLines(e.lines)) = e.lines

\* an edited buffer of several lines was saved under a new name
C22_SavedSeveralLines ==
    /\ status = "running" /\ ~e.dirty
    /\ e.filename = <<"a", ".", "j", "s">>
    /\ Len(e.lines) > 1
    /\ \E i \in 1..Len(e.lines) : Len(e.lines[i]) > 1

\* the columns Render has for the text of a line, right of the line number
ViewWidth(ed) == ScreenW - LineNumStrLen(ed, ed.cursorLine + 1) - 2

\* C23: after every Render pass in which the text area is a column wide at
\* least, the cursor's visual column is inside the horizontal scroll
\* window: horizOffset <= cursorVisualCol < horizOffset + viewWidth
C23_CursorInWindow ==
    (status = "running" /\ ViewWidth(e) >= 1) =>
        /\ e.horizOffset <= e.cursorVisualCol
        /\ e.cursorVisualCol < e.horizOffset + ViewWidth(e)

\* the cursor went right of the window and the window followed it
C23_WindowMoved ==
    /\ status = "running"
    /\ ViewWidth(e) >= 1
    /\ e.horizOffset > 0
    /\ e.cursorVisualCol = e.horizOffset + ViewWidth(e) - 1

\* the keys the handler of which may move the cursor
CursorKeys ==
    {Key("KeyHome"), Key("KeyEnd"), Key("KeyUp"), Key("KeyDown"),
     Key("KeyLeft"), Key("KeyRight"), CtrlKey("KeyLeft"), CtrlKey("KeyRight"),
     Key("KeyPgUp"), Key("KeyPgDn"), Key("KeyEnter"), Key("KeyBackspace"),
     Key("KeyDelete"), Key("KeyTab"), RuneKey("}")}

\* the cached visual column is the one of the cursor's place
VisualColCurrent(ed) ==
    ed.cursorVisualCol = visualColForByteCol(LineAt(ed, ed.cursorLine), ed.cursorCol)

\* when the handler of the key returns with the cursor moved, the cached
\* visual column is current
LeavesVisualColCurrent(key) ==
    \A seed \in MapSeeds(e.highlighter) :
        LET r == Call("Dispatch", <<e, key, seed>>)
        IN (/\ r.st = "running"
            /\ <<r.ed.cursorLine, r.ed.cursorCol>> # <<e.cursorLine, e.cursorCol>>)
               => VisualColCurrent(r.ed)

\* C24: when a key handler that changes cursorLine or cursorCol returns,
\* the cached cursorVisualCol equals
\* visualColForByteCol(lines[cursorLine], cursorCol)
C24_VisualColAfterHandler ==
    TypingInBuffer => \A key \in CursorKeys : LeavesVisualColCurrent(key)

\* the keys that edit inside the cursor's line: a character typed, Tab, a
\* Backspace right of column 0, a Delete left of the line's end
InLineKeys(ed) ==
    {RuneKey(r) : r \in TypedRunes} \cup {Key("KeyTab")}
        \cup (IF ed.cursorCol > 0 THEN {Key("KeyBackspace")} ELSE {})
        \cup (IF ed.cursorCol < Len(LineAt(ed, ed.cursorLine)) THEN {Key("KeyDelete")} ELSE {})

\* the editor to differs from the editor from on the cursor's line at most
OnlyCursorLineChanged(from, to) ==
    /\ Len(to.lines) = Len(from.lines)
    /\ Len(to.lineTokens) = Len(from.lineTokens)
    /\ Len(to.embeddedContexts) = Len(from.embeddedContexts)
    /\ to.cursorLine = from.cursorLine
    /\ \A i \in 1..Len(from.lines) :
          i # from.cursorLine + 1 =>
              /\ to.lines[i] = from.lines[i]
              /\ to.lineTokens[i] = from.lineTokens[i]
              /\ to.embeddedContexts[i] = from.embeddedContexts[i]

\* C25: a character typed, a Tab, and a Backspace or Delete that removes a
\* character inside a line, the cursor inside the buffer, change the text,
\* the tokens and the contexts of the cursor's line only: the number of
\* lines and every other line's text, tokens and contexts stay as they were
C25_InLineEditFrame ==
    TypingInBuffer =>
        \A key \in InLineKeys(e) : \A seed \in MapSeeds(e.highlighter) :
            LET r == Call("Dispatch", <<e, key, seed>>)
            IN r.st = "running" => OnlyCursorLineChanged(e, r.ed)

\* a closing brace was typed on the line under the one of the style sheet
C25_TypedUnderSheet ==
    /\ status = "running" /\ e.dirty /\ e.format = "CSS"
    /\ e.lines = <<<<"\t", "}">>, <<"}">>>>
    /\ e.cursorLine = 1 /\ e.cursorCol = 1
    /\ e.lineTokens[1] # <<>> /\ e.lineTokens[2] # <<>>

\* the tokens phase 1 of tokenizeLine appends, in the order it appends them
LiteralEmission(hformat, line, litOrd) ==
    LET g == Call("GrammarOf", <<hformat>>)
    IN Flatten([k \in 1..Len(litOrd) |-> LiteralTokens(g.patterns[litOrd[k]], line, hformat)])

\* the token list of tokenizeLine as it is before the final sort: the
\* sorted tokens of phase 1, then those phases 2, 3 and 4 append, in the
\* order they append them
EmittedTokens(hformat, line, litOrd, restOrd) ==
    LET g == Call("GrammarOf", <<hformat>>)
        phase1 == SortByStart(LiteralEmission(hformat, line, litOrd))
        phase2 == KeywordPhase(Call("FindAll", <<RWords, line>>), 1, line, g.keywords, hformat,
                               phase1)
        phase3 == PatternPhase(g.patterns, restOrd, 1, line, hformat, phase2)
    IN addContextSpecificTokens(hformat, line, phase3)

\* from the token at index from on, no token of the list has its span
\* inside the span of a token that comes before it in the list
NoneCoveredWhenAdded(tokens, from) ==
    \A k \in from..Len(tokens) :
        ~isPositionCovered(tokens[k].Start, tokens[k].End, SubSeq(tokens, 1, k - 1))

\* the orders the two ranges of tokenizeLine over the pattern map may take
RangeOrders(hformat) ==
    LET pats == Call("GrammarOf", <<hformat>>).patterns
    IN LitOrders(pats) \X RestOrders(pats)

\* C27: in every phase of tokenizeLine no token is added whose span is
\* inside the span of a token the list already holds
C27_NoCoveredTokenAdded ==
    (status = "running" /\ e.highlighter # "PlainText") =>
        \A i \in 1..Len(e.lines) : \A o \in RangeOrders(e.highlighter) :
            /\ NoneCoveredWhenAdded(LiteralEmission(e.highlighter, e.lines[i], o[1]), 1)
            /\ NoneCoveredWhenAdded(EmittedTokens(e.highlighter, e.lines[i], o[1], o[2]),
                                    Len(LiteralEmission(e.highlighter, e.lines[i], o[1])) + 1)

\* the spans of the capture groups of pattern p that took part in match m
GroupSpans(p, m) ==
    {<<m[2 * g + 1], m[2 * g + 2]>> :
        g \in {h \in 1..p.ncap : 2 * h + 2 <= Len(m) /\ m[2 * h + 1] # -1}}

\* the patterns of phase 3 with capture groups, all of them among the
\* groups a match records
GroupedPatterns(hformat) ==
    LET pats == Call("GrammarOf", <<hformat>>).patterns
    IN {pats[k] : k \in {j \in 1..Len(pats) :
                           /\ pats[j].type \notin LiteralTypes
                           /\ pats[j].ncap >= 1
                           /\ 2 * pats[j].ncap <= Len(NoCaps)}}

\* C28: in phase 3 of tokenizeLine the token emitted for a match in which
\* a capture group of the pattern took part has the span of such a group,
\* never that of the whole match
C28_GroupSpanEmitted ==
    (status = "running" /\ e.highlighter # "PlainText") =>
        \A i \in 1..Len(e.lines) : \A p \in GroupedPatterns(e.highlighter) :
            LET ms == Call("FindAll", <<p.re, e.lines[i]>>)
                toks == PatternMatches(p, ms, 1, e.highlighter, <<>>)
            IN /\ Len(toks) = Len(ms)
               /\ \A k \in 1..Len(ms) :
                     GroupSpans(p, ms[k]) # {} =>
                         <<toks[k].Start, toks[k].End>> \in GroupSpans(p, ms[k])

\* the stable sort by Start: each token is put after those that start
\* where it starts or before
RECURSIVE StableInsert(_, _)
StableInsert(sorted, t) ==
    IF sorted = <<>> \/ sorted[Len(sorted)].Start <= t.Start THEN Append(sorted, t)
    ELSE Append(StableInsert(SubSeq(sorted, 1, Len(sorted) - 1), t), sorted[Len(sorted)])
RECURSIVE StableSort(_)
StableSort(tokens) ==
    IF tokens = <<>> THEN <<>>
    ELSE StableInsert(StableSort(SubSeq(tokens, 1, Len(tokens) - 1)), tokens[Len(tokens)])

\* C29: the token list tokenizeLine returns is the stable sort by Start of
\* the tokens it emitted: ascending by Start, tokens of equal Start in the
\* order they were emitted in
C29_StableSort ==
    (status = "running" /\ e.highlighter # "PlainText") =>
        \A i \in 1..Len(e.lines) : \A o \in RangeOrders(e.highlighter) :
            tokenizeLine(e.highlighter, e.lines[i], o[1], o[2])
                = StableSort(EmittedTokens(e.highlighter, e.lines[i], o[1], o[2]))

\* C30: after the goto command, whatever its arguments, the cursor is
\* inside the buffer: 0 <= cursorLine < len(lines) and
\* 0 <= cursorCol <= len(lines[cursorLine])
C30_GotoKeepsCursorInBounds ==
    [][(CursorInBounds(e) /\ RunCommand /\ status' = "running")
          => CursorInBounds(e')]_vars

\* the lines the search string occurs in, as updateFindResults tests them
FindMatches(ed) ==
    {i \in 0..(Len(ed.lines) - 1) : Contains(LineAt(ed, i), ed.findBuf)}

\* the keys of Find mode that go to the next and to the previous result
FindNavKeys == {Key("KeyDown"), Key("KeyRight"), Key("KeyUp"), Key("KeyLeft")}

\* C31: in Find mode a next or previous navigation that has a result to go
\* to leaves the cursor on a line of the buffer in which the search string
\* occurs, also when Find mode was entered again after an edit
C31_FindNavigatesToMatch ==
    (status = "running" /\ e.mode = "Find" /\ Len(e.findResults) > 0) =>
        \A key \in FindNavKeys :
            LET r == Call("Dispatch", <<e, key, 0>>)
            IN /\ r.st = "running"
               /\ r.ed.cursorLine \in FindMatches(e)

\* C32: when Enter is pressed in CommandLine mode and the command opens
\* neither the save prompt nor the quit prompt, the mode after the event is
\* Interactive
C32_EnterReturnsToInteractive ==
    [][(EnterCommand /\ status' = "running"
            /\ e'.mode \notin {"PromptSave", "PromptQuit"})
          => e'.mode = "Interactive"]_vars

\* C33: when the quit command ends the editor at once, without a prompt,
\* the text of the buffer is the text on disk: the text last loaded or
\* written with success
C33_QuitAtOnceLosesNothing ==
    (status = "exited" /\ e.mode = "CommandLine") => JoinLines(e.lines) = e.disk

\* C34: when the file holds the text a save of the buffer writes, loading
\* the file gives back the lines of the buffer
C34_SaveLoadRoundTrip ==
    (status = "running" /\ e.filename # <<>> /\ e.disk = JoinLines(e.lines)) =>
        Call("Load", <<<<e.filename>>, e.disk, 0>>).lines = e.lines

\* loadMoreLines(n) called again and again until the load is no longer
\* partial
RECURSIVE LoadedThrough(_, _)
LoadedThrough(ed, n) ==
    IF EndOfSource(ed) THEN ed
    ELSE LoadedThrough(Call("loadMoreLines", <<ed, n, 0>>), n)

\* every line the text of the source holds, in order
SourceLines(text) == readLinesFromReader(text, Len(text) + 1).lines

C36_ColumnRoundTrip ==
    status = "running" =>
        \A i \in 1..Len(e.lines) :
            LET line == e.lines[i]
            IN \A b \in 0..Len(line) :
                  /\ byteColForVisualCol(line, visualColForByteCol(line, b)) = b
                  /\ b < Len(line) =>
                        /\ visualColForByteCol(line, b) < visualColForByteCol(line, b + 1)
                        /\ At(line, b) = "\t" =>
                              visualColForByteCol(line, b + 1) % TabWidth = 0

\* the cursor was placed behind a tab that follows a letter
C36_PlacedBehindTab ==
    /\ status = "running"
    /\ e.lines = <<<<"x", "\t", "x">>>>
    /\ e.cursorCol = 2 /\ e.cursorVisualCol = 4

\* the keys of the sessions on the page
PageKeys ==
    {Key("KeyHome"), Key("KeyEnd"), Key("KeyUp"), Key("KeyDown"),
     Key("KeyEnter"), Key("KeyBackspace"), Key("KeyDelete")}

\* C37: in the Render pass that follows a key, the visible lines are drawn
\* from the horizontal offset the cursor is placed with in that pass
C37_DrawnAtCursorOffset ==
    status = "running" =>
        \A key \in PageKeys :
            LET r == Call("Dispatch", <<e, key, 0>>)
                pass == Call("Render", <<r.ed, 0>>)
            IN (r.st = "running" /\ pass.st = "running") =>
                   visStart(r.ed) = pass.ed.horizOffset

\* C38: in the variant part_000 the construction of a highlighter ends for
\* every file format, and no call of NewSyntaxHighlighter is nested more
\* than one level below the first
C38_ConstructionEnds == [](Len(e.stack) <= 2) /\ <>(e.built)

=============================================================================
